---- MODULE Spec2Model ----
(***************************************************************************)
(* endio: byte-order-parameterised read/write entry points, the primitive  *)
(* codecs, and the derive macros that turn a struct/enum declaration into  *)
(* a sequence of channel reads (Deserialize) or writes (Serialize).        *)
(*                                                                         *)
(* The macros are modelled as operators from a declaration (DeriveInput)   *)
(* to generated code (a list of statements); the generated code is run one *)
(* channel operation at a time by the actions below.                       *)
(***************************************************************************)
EXTENDS Integers, Sequences, FiniteSets, TLC

(***************************************************************************)
(* Bounds of the model.                                                    *)
(***************************************************************************)
\* longest byte stream handed to a reader that was not produced by a writer
MaxLen == 3

(***************************************************************************)
(* Option<T>: None is the empty sequence, Some(x) the one-element sequence. *)
(***************************************************************************)
None == <<>>
Some(x) == <<x>>
IsSome(o) == o # <<>>
Unwrap(o) == o[1]

\* std::io::Result: <<"Ok", value>> or <<"Err", error>>; an io::Error is
\* <<kind, message...>>, a macro panic is its message
Ok(v) == <<"Ok", v>>
Err(e) == <<"Err", e>>
IsOk(r) == r[1] = "Ok"
IsErr(r) == r[1] = "Err"

Byte == 0..255

(***************************************************************************)
(* src/endian.rs: the two (sealed) byte orders.                            *)
(***************************************************************************)
BigEndian == "BigEndian"
LittleEndian == "LittleEndian"
Endianness == {BigEndian, LittleEndian}

(***************************************************************************)
(* src/read.rs, src/write.rs: the entry points.  ERead<E> / EWrite<E> have *)
(* the ambient order E, BERead / BEWrite big endian, LERead / LEWrite      *)
(* little endian; each has the methods read, read_be, read_le (write,      *)
(* write_be, write_le).  An entry is [trait, E, method] with trait "E",    *)
(* "BE" or "LE" and method "", "be" or "le".                               *)
(***************************************************************************)
Entry(trait, E, method) == [trait |-> trait, E |-> E, method |-> method]
Methods == {"", "be", "le"}
Entries ==
  {Entry("E", E, m) : E \in Endianness, m \in Methods}
    \cup {Entry("BE", BigEndian, m) : m \in Methods}
    \cup {Entry("LE", LittleEndian, m) : m \in Methods}
AmbientEntries == {Entry("E", E, "") : E \in Endianness}

\* an entry point whose methods all use the trait's own order
order_of_trait(e) == e.E

\* the E of the Deserialize<E, Self> / Serialize<E, Self> bound of the method
order_of(e) ==
  CASE e.method = "be" -> BigEndian
    [] e.method = "le" -> LittleEndian
    [] OTHER -> e.E

(***************************************************************************)
(* Primitive codecs (src/deserialize.rs, src/serialize.rs).                *)
(***************************************************************************)
\* A value of 8 or 16 bits is its number; a wider value is <<hi, lo>>, lo
\* being its 16 least significant bits as a number and hi the bits above
\* them as a value of the same kind 16 bits narrower: a u32 is <<hi, lo>> with
\* two numbers.  The most significant 16 bits of a signed value are a number
\* from -32768 to 32767.
UnsignedTypes == {"u8", "u16", "u32", "u64", "u128"}
SignedTypes == {"i8", "i16", "i32", "i64", "i128"}
IntTypes == UnsignedTypes \cup SignedTypes
Primitives == IntTypes \cup {"bool"}

\* Option<T> for the payload types T in use, and the T of each
OptionTypes == {"Option<u8>", "Option<u16>"}
Payload(ty) == CASE ty = "Option<u8>" -> "u8"
                 [] ty = "Option<u16>" -> "u16"

\* Vec<S> for the element types S in use, and the S of each
SeqTypes == {"Vec<u8>", "Vec<u16>"}
Elem(ty) == CASE ty = "Vec<u8>" -> "u8"
              [] ty = "Vec<u16>" -> "u16"

\* the types the library implements Serialize for, for a reference to them:
\* the integers, bool and Vec<S>; no impl for Option<T> exists
ImplementsSerialize(ty) == ty \in Primitives \cup SeqTypes

\* the types the library implements Deserialize for: the integers, bool and
\* Option<T>; no impl for Vec<S> exists
ImplementsDeserialize(ty) == ty \in Primitives \cup OptionTypes

\* a slice whose elements are those of the Vec in the opposite order
as_slice_reversed(v) == [i \in DOMAIN v |-> v[Len(v) + 1 - i]]

\* Vec::as_slice: the elements of the Vec, in index order
as_slice(v) == v

\* number of values of an integer type: 2^(8 * size_of)
RECURSIVE Pow256(_)
Pow256(n) == IF n = 0 THEN 1 ELSE 256 * Pow256(n - 1)

\* std::mem::size_of::<Self>() of a primitive, in bytes
size_of(ty) == CASE ty \in {"u8", "i8", "bool"} -> 1
                 [] ty \in {"u16", "i16"} -> 2
                 [] ty \in {"u32", "i32"} -> 4
                 [] ty \in {"u64", "i64"} -> 8
                 [] ty \in {"u128", "i128"} -> 16

\* a signed integer of n bytes taken for the unsigned integer of the same
\* bits (two's complement), which is how $t::to_be_bytes sees it
RECURSIVE cast_unsigned(_, _)
cast_unsigned(v, n) ==
  IF n > 2 THEN <<cast_unsigned(v[1], n - 2), v[2]>> ELSE v % Pow256(n)

\* a signed decode that keeps the unsigned reading of the bytes
cast_signed_unchanged(v, n) == v

\* the bits of an unsigned integer of n bytes taken for a signed one, which
\* is what $t::from_be_bytes of a signed $t returns
RECURSIVE cast_signed(_, _)
cast_signed(v, n) ==
  IF n > 2 THEN <<cast_signed(v[1], n - 2), v[2]>>
  ELSE IF 2 * v >= Pow256(n) THEN v - Pow256(n) ELSE v

\* `x as ty` for an unsigned integer type: truncation to the type's width
AsTy(x, ty) == x % Pow256(size_of(ty))

\* $t::to_be_bytes: most significant byte first
RECURSIVE to_be_bytes(_, _)
to_be_bytes(v, n) ==
  IF n = 0 THEN <<>>
  ELSE IF n > 2 THEN to_be_bytes(v[1], n - 2) \o to_be_bytes(v[2], 2)
  ELSE Append(to_be_bytes(v \div 256, n - 1), v % 256)

\* to_le_bytes writing the most significant byte first
to_le_bytes_msb_first(v, n) == to_be_bytes(v, n)

\* $t::to_le_bytes: least significant byte first
RECURSIVE to_le_bytes(_, _)
to_le_bytes(v, n) ==
  IF n = 0 THEN <<>>
  ELSE IF n > 2 THEN to_le_bytes(v[2], 2) \o to_le_bytes(v[1], n - 2)
  ELSE <<v % 256>> \o to_le_bytes(v \div 256, n - 1)

\* $t::from_be_bytes
RECURSIVE from_be_bytes(_)
from_be_bytes(buf) ==
  IF buf = <<>> THEN 0
  ELSE IF Len(buf) > 2
  THEN <<from_be_bytes(SubSeq(buf, 1, Len(buf) - 2)),
         from_be_bytes(SubSeq(buf, Len(buf) - 1, Len(buf)))>>
  ELSE 256 * from_be_bytes(SubSeq(buf, 1, Len(buf) - 1)) + buf[Len(buf)]

\* from_le_bytes reading the most significant byte first
from_le_bytes_msb_first(buf) == from_be_bytes(buf)

\* $t::from_le_bytes
RECURSIVE from_le_bytes(_)
from_le_bytes(buf) ==
  IF buf = <<>> THEN 0
  ELSE IF Len(buf) > 2
  THEN <<from_le_bytes(SubSeq(buf, 3, Len(buf))), from_le_bytes(SubSeq(buf, 1, 2))>>
  ELSE buf[1] + 256 * from_le_bytes(Tail(buf))

\* impl Deserialize<BigEndian|LittleEndian, R> for $t (impl_int!), and for u8
\* (from_ne_bytes of one byte): the value held by the bytes read by read_exact
deserialize_int(ty, E, buf) ==
  LET bits == IF size_of(ty) = 1 THEN buf[1]
              ELSE IF E = BigEndian THEN from_be_bytes(buf) ELSE from_le_bytes(buf)
  IN  Ok(IF ty \in SignedTypes THEN cast_signed(bits, size_of(ty)) ELSE bits)

\* a bool decode that takes every byte other than 0 as true
deserialize_bool_nonzero(buf) == Ok(buf[1] # 0)

\* impl Deserialize<E, R> for bool
deserialize_bool(buf) ==
  CASE buf[1] = 0 -> Ok(FALSE)
    [] buf[1] = 1 -> Ok(TRUE)
    [] OTHER -> Err(<<"InvalidData", "bool had value other than 0 or 1">>)

\* D::deserialize for a primitive D, applied to the size_of(D) bytes it read
deserialize_prim(ty, E, buf) ==
  IF ty = "bool" THEN deserialize_bool(buf) ELSE deserialize_int(ty, E, buf)

\* impl Serialize<BigEndian|LittleEndian, W> for $t (impl_int!): the bytes
\* handed to write_all
serialize_int(ty, E, v) ==
  LET bits == IF ty \in SignedTypes THEN cast_unsigned(v, size_of(ty)) ELSE v
  IN  IF E = BigEndian THEN to_be_bytes(bits, size_of(ty))
      ELSE to_le_bytes(bits, size_of(ty))

\* impl Serialize<E, W> for bool: (self as u8).to_ne_bytes()
serialize_bool(v) == <<IF v THEN 1 ELSE 0>>

\* S::serialize for a primitive S (through impl_ref! for &S)
serialize_prim(ty, E, v) ==
  IF ty = "bool" THEN serialize_bool(v) ELSE serialize_int(ty, E, v)

\* an array of n bytes 0xff
Filled(n) == [i \in 1..n |-> 255]

\* [0; n]: an array of n zero bytes
RECURSIVE Zeros(_)
Zeros(n) == IF n = 0 THEN <<>> ELSE <<0>> \o Zeros(n - 1)

(***************************************************************************)
(* The macro input (syn::DeriveInput), as far as the macros look at it.    *)
(*   attribute  [path, lit, nested]: #[path = lit] or #[path(nested...)]   *)
(*   field      [ident, ty, attrs]                                         *)
(*   fields     [style, list], style "Named" | "Unnamed" | "Unit"          *)
(*   variant    [ident, discriminant, fields], discriminant an Option      *)
(*   input      [ident, attrs, data, fields, variants], data "Struct" or   *)
(*              "Enum"                                                     *)
(***************************************************************************)
NameValue(path, lit) == [path |-> path, lit |-> lit, nested |-> <<>>]
MetaList(path, nested) == [path |-> path, lit |-> 0, nested |-> nested]
Field(ident, ty, attrs) == [ident |-> ident, ty |-> ty, attrs |-> attrs]
Named(list) == [style |-> "Named", list |-> list]
Unnamed(list) == [style |-> "Unnamed", list |-> list]
Unit == [style |-> "Unit", list |-> <<>>]
Variant(ident, discriminant, fields) ==
  [ident |-> ident, discriminant |-> discriminant, fields |-> fields]
Struct(ident, attrs, fields) ==
  [ident |-> ident, attrs |-> attrs, data |-> "Struct", fields |-> fields,
   variants |-> <<>>]
Enum(ident, attrs, variants) ==
  [ident |-> ident, attrs |-> attrs, data |-> "Enum", fields |-> Unit,
   variants |-> variants]

(***************************************************************************)
(* endio_derive/src/lib.rs                                                 *)
(***************************************************************************)
\* #[proc_macro_derive(Deserialize, attributes(...))]: the helper attributes
\* the compiler lets a type deriving Deserialize carry
DeserializeAttributes == {"post_disc_padding", "padding", "trailing_padding"}
\* #[proc_macro_derive(Serialize, attributes(...))]
SerializeAttributes == {"post_disc_padding", "padding", "trailing_padding"}

\* fn get_enum_type: the first repr argument that is neither C nor transparent
RECURSIVE get_enum_type_nested(_, _)
get_enum_type_nested(nested, i) ==
  IF i > Len(nested) THEN None
  ELSE IF nested[i] = "C" \/ nested[i] = "transparent"
       THEN get_enum_type_nested(nested, i + 1)
       ELSE Some(nested[i])

\* a lookup that falls back to u8 when no repr names an integer type
RECURSIVE get_enum_type_attrs_or_u8(_, _)
get_enum_type_attrs_or_u8(attrs, i) ==
  IF i > Len(attrs) THEN Ok("u8")
  ELSE IF attrs[i].path # "repr" THEN get_enum_type_attrs_or_u8(attrs, i + 1)
  ELSE IF attrs[i].nested = <<>>
       THEN Err("encountered repr attribute with no arguments")
       ELSE LET found == get_enum_type_nested(attrs[i].nested, 1)
            IN  IF IsSome(found) THEN Ok(Unwrap(found))
                ELSE get_enum_type_attrs_or_u8(attrs, i + 1)

RECURSIVE get_enum_type_attrs(_, _)
get_enum_type_attrs(attrs, i) ==
  IF i > Len(attrs)
  THEN Err("You need to add a repr attribute to specify the discriminant type, e.g. #[repr(u16)]")
  ELSE IF attrs[i].path # "repr" THEN get_enum_type_attrs(attrs, i + 1)
  ELSE IF attrs[i].nested = <<>>
       THEN Err("encountered repr attribute with no arguments")
       ELSE LET found == get_enum_type_nested(attrs[i].nested, 1)
            IN  IF IsSome(found) THEN Ok(Unwrap(found))
                ELSE get_enum_type_attrs(attrs, i + 1)

get_enum_type(input) == get_enum_type_attrs(input.attrs, 1)

\* fn get_padding: the literal of the first attribute named attr_name
RECURSIVE get_padding_from(_, _, _)
get_padding_from(attrs, attr_name, i) ==
  IF i > Len(attrs) THEN None
  ELSE IF attrs[i].path # attr_name THEN get_padding_from(attrs, attr_name, i + 1)
  ELSE Some(attrs[i].lit)

get_padding(attrs, attr_name) == get_padding_from(attrs, attr_name, 1)

get_field_padding(input) == get_padding(input.attrs, "padding")
get_post_disc_padding(input) == get_padding(input.attrs, "post_disc_padding")
get_trailing_padding(input) == get_padding(input.attrs, "trailing_padding")

\* imported by deserialize.rs and serialize.rs from the crate root, which does
\* not define it: modelled after its three siblings
get_pre_disc_padding(input) == get_padding(input.attrs, "pre_disc_padding")

\* the attribute names a declaration carries, on the type and on its fields
AttrPaths(attrs) == {attrs[i].path : i \in DOMAIN attrs}
FieldsAttrPaths(fields) ==
  UNION {AttrPaths(fields.list[i].attrs) : i \in DOMAIN fields.list}
InputAttrPaths(input) ==
  AttrPaths(input.attrs) \cup FieldsAttrPaths(input.fields)
    \cup UNION {FieldsAttrPaths(input.variants[i].fields) : i \in DOMAIN input.variants}

(***************************************************************************)
(* Generated code: a sequence of statements [op, n, ty, arms].             *)
(*   read_exact n    let mut padding = [0; n]; read_exact(reader, padding)? *)
(*   read_disc ty    let disc: ty = ERead::read(reader)?;                  *)
(*   match           let ret = match disc { arms, _ => return Err(..) };   *)
(*   read ty         ERead::read(reader)?  (one field initialiser)         *)
(*   write_all n     let padding = [0; n]; write_all(writer, &padding)?    *)
(*   write_disc ty   let disc = <tag of self>; EWrite::write(writer, disc)? *)
(*   match_self      match self { arms }                                   *)
(*   write ty (n)    EWrite::write(writer, <n-th bound field>)?            *)
(*   ok              Ok(ret) / Ok(())                                      *)
(* An arm is [ident, value, body].                                         *)
(***************************************************************************)
Stmt(op, n, ty, arms) == [op |-> op, n |-> n, ty |-> ty, arms |-> arms]

\* <&Vec<S>>::serialize: writer.write(self.as_slice())
serialize_vec(ty) == <<Stmt("as_slice", 0, Elem(ty), <<>>)>>

\* <&[S]>::serialize: for elem in self { writer.write(elem)?; } Ok(())
serialize_slice(S) == <<Stmt("for", 0, S, <<>>), Stmt("ok", 0, "", <<>>)>>

\* Option::<T>::deserialize: let is_some: bool = reader.read()?; then the
\* branch on it
deserialize_option(ty) ==
  <<Stmt("read", 0, "bool", <<>>), Stmt("if_is_some", 0, Payload(ty), <<>>)>>
Arm(ident, value, body) == [ident |-> ident, value |-> value, body |-> body]

(***************************************************************************)
(* endio_derive/src/deserialize.rs                                         *)
(***************************************************************************)
\* fn gen_read_padding
gen_read_padding(padding) ==
  IF IsSome(padding) THEN <<Stmt("read_exact", Unwrap(padding), "", <<>>)>>
  ELSE <<>>

\* field reads with each field's padding read after the field
RECURSIVE gen_deser_code_list_pad_after(_, _)
gen_deser_code_list_pad_after(list, i) ==
  IF i > Len(list) THEN <<>>
  ELSE <<Stmt("read", 0, list[i].ty, <<>>)>>
         \o gen_read_padding(get_field_padding(list[i]))
         \o gen_deser_code_list_pad_after(list, i + 1)

\* fn gen_deser_code_fields: for every field in order, its padding read
\* followed by its read; named and unnamed fields generate the same reads
RECURSIVE gen_deser_code_list(_, _)
gen_deser_code_list(list, i) ==
  IF i > Len(list) THEN <<>>
  ELSE gen_read_padding(get_field_padding(list[i]))
         \o <<Stmt("read", 0, list[i].ty, <<>>)>>
         \o gen_deser_code_list(list, i + 1)

gen_deser_code_fields(fields) ==
  IF fields.style = "Unit" THEN <<>> ELSE gen_deser_code_list(fields.list, 1)

\* fn gen_deser_code_struct: let ret = Self <fields>;
gen_deser_code_struct(fields) == gen_deser_code_fields(fields)

\* an arm guard that leaves the offset out
arm_disc_without_offset(last_disc, disc_offset, ty) == last_disc

\* the guard value of one arm: (#last_disc + (#disc_offset as #ty))
arm_disc(last_disc, disc_offset, ty) == last_disc + AsTy(disc_offset, ty)

\* the loop of gen_deser_code_enum over data.variants, from variant i on
RECURSIVE gen_deser_arms(_, _, _, _, _)
gen_deser_arms(variants, i, last_disc, disc_offset, ty) ==
  IF i > Len(variants) THEN <<>>
  ELSE LET f == variants[i]
           explicit == IsSome(f.discriminant)
           last == IF explicit THEN Unwrap(f.discriminant) ELSE last_disc
           offset == IF explicit THEN 0 ELSE disc_offset
           arm == Arm(f.ident, arm_disc(last, offset, ty),
                      gen_deser_code_fields(f.fields))
       IN  <<arm>> \o gen_deser_arms(variants, i + 1, last, offset + 1, ty)

\* a union decode that matches the discriminant before it reads the padding
\* that follows it
gen_deser_code_enum_match_first(variants, name, ty, pre_disc_padding, post_disc_padding) ==
  gen_read_padding(pre_disc_padding)
    \o <<Stmt("read_disc", 0, ty, <<>>)>>
    \o <<Stmt("match", 0, "", gen_deser_arms(variants, 1, 0, 0, ty))>>
    \o gen_read_padding(post_disc_padding)

\* fn gen_deser_code_enum
gen_deser_code_enum(variants, name, ty, pre_disc_padding, post_disc_padding) ==
  gen_read_padding(pre_disc_padding)
    \o <<Stmt("read_disc", 0, ty, <<>>)>>
    \o gen_read_padding(post_disc_padding)
    \o <<Stmt("match", 0, "", gen_deser_arms(variants, 1, 0, 0, ty))>>

\* fn derive: the body of the generated fn deserialize, or the macro's panic
deserialize_derive(input) ==
  LET tail == gen_read_padding(get_trailing_padding(input))
                \o <<Stmt("ok", 0, "", <<>>)>>
  IN  IF input.data = "Struct"
      THEN Ok(gen_deser_code_struct(input.fields) \o tail)
      ELSE LET ty == get_enum_type(input)
           IN  IF IsErr(ty) THEN ty
               ELSE Ok(gen_deser_code_enum(input.variants, input.ident, ty[2],
                                           get_pre_disc_padding(input),
                                           get_post_disc_padding(input)) \o tail)

\* pub fn derive_deserialize: the expansion of #[derive(Deserialize)] on input;
\* an attribute that is not a registered helper attribute is a compile error
derive_deserialize(input) ==
  IF InputAttrPaths(input) \subseteq DeserializeAttributes \cup {"repr"}
  THEN deserialize_derive(input)
  ELSE Err("cannot find attribute")

(***************************************************************************)
(* endio_derive/src/serialize.rs                                           *)
(***************************************************************************)
\* a padding write that writes at least one byte when a count is given
gen_write_padding_at_least_one(padding) ==
  IF IsSome(padding)
  THEN <<Stmt("write_all", IF Unwrap(padding) = 0 THEN 1 ELSE Unwrap(padding),
              "", <<>>)>>
  ELSE <<>>

\* fn gen_write_padding
gen_write_padding(padding) ==
  IF IsSome(padding) THEN <<Stmt("write_all", Unwrap(padding), "", <<>>)>>
  ELSE <<>>

\* field writes with each field's padding written after the field
RECURSIVE gen_ser_code_list_pad_after(_, _)
gen_ser_code_list_pad_after(list, i) ==
  IF i > Len(list) THEN <<>>
  ELSE <<Stmt("write", i, list[i].ty, <<>>)>>
         \o gen_write_padding(get_field_padding(list[i]))
         \o gen_ser_code_list_pad_after(list, i + 1)

\* fn gen_ser_code_fields: the arm body: for every bound field in order, its
\* padding write followed by its write
RECURSIVE gen_ser_code_list(_, _)
gen_ser_code_list(list, i) ==
  IF i > Len(list) THEN <<>>
  ELSE gen_write_padding(get_field_padding(list[i]))
         \o <<Stmt("write", i, list[i].ty, <<>>)>>
         \o gen_ser_code_list(list, i + 1)

gen_ser_code_fields(fields) ==
  IF fields.style = "Unit" THEN <<>> ELSE gen_ser_code_list(fields.list, 1)

\* fn gen_ser_code_struct: match self { #name #ser_code }
gen_ser_code_struct(fields, name) ==
  <<Stmt("match_self", 0, "", <<Arm(name, 0, gen_ser_code_fields(fields))>>)>>

\* the arms of gen_ser_code_enum, one per variant in declaration order
RECURSIVE gen_ser_arms(_, _)
gen_ser_arms(variants, i) ==
  IF i > Len(variants) THEN <<>>
  ELSE <<Arm(variants[i].ident, 0, gen_ser_code_fields(variants[i].fields))>>
         \o gen_ser_arms(variants, i + 1)

\* an enum body that writes the post-discriminant padding inside no arm but
\* after the match, next to the trailing padding
gen_ser_code_enum_post_last(variants, name, ty, pre_disc_padding, post_disc_padding) ==
  gen_write_padding(pre_disc_padding)
    \o <<Stmt("write_disc", 0, ty, <<>>)>>
    \o <<Stmt("match_self", 0, "", gen_ser_arms(variants, 1))>>
    \o gen_write_padding(post_disc_padding)

\* fn gen_ser_code_enum
gen_ser_code_enum(variants, name, ty, pre_disc_padding, post_disc_padding) ==
  gen_write_padding(pre_disc_padding)
    \o <<Stmt("write_disc", 0, ty, <<>>)>>
    \o gen_write_padding(post_disc_padding)
    \o <<Stmt("match_self", 0, "", gen_ser_arms(variants, 1))>>

\* fn derive: the body of the generated fn serialize, or the macro's panic
serialize_derive(input) ==
  LET tail == gen_write_padding(get_trailing_padding(input))
                \o <<Stmt("ok", 0, "", <<>>)>>
  IN  IF input.data = "Struct"
      THEN Ok(gen_ser_code_struct(input.fields, input.ident) \o tail)
      ELSE LET ty == get_enum_type(input)
           IN  IF IsErr(ty) THEN ty
               ELSE Ok(gen_ser_code_enum(input.variants, input.ident, ty[2],
                                         get_pre_disc_padding(input),
                                         get_post_disc_padding(input)) \o tail)

\* pub fn derive_serialize: the expansion of #[derive(Serialize)] on input
derive_serialize(input) ==
  IF InputAttrPaths(input) \subseteq SerializeAttributes \cup {"repr"}
  THEN serialize_derive(input)
  ELSE Err("cannot find attribute")

(***************************************************************************)
(* The declarations the macros are applied to.                             *)
(***************************************************************************)
Repr(ty) == MetaList("repr", <<ty>>)
Padding(n) == <<NameValue("padding", n)>>

\* #[repr(u16)] enum Plain { A, B, C = 42, D }
Plain ==
  Enum("Plain", <<Repr("u16")>>,
       <<Variant("A", None, Unit), Variant("B", None, Unit),
         Variant("C", Some(42), Unit), Variant("D", None, Unit)>>)

\* struct Pair(u8, u16);
Pair == Struct("Pair", <<>>, Unnamed(<<Field("0", "u8", <<>>), Field("1", "u16", <<>>)>>))

\* struct Riap(u16, u8);  Pair with the two fields declared in the other order
Riap == Struct("Riap", <<>>, Unnamed(<<Field("0", "u16", <<>>), Field("1", "u8", <<>>)>>))

\* struct Empty;
Empty == Struct("Empty", <<>>, Unit)

\* #[trailing_padding=2] struct Tail2;
Tail2 == Struct("Tail2", <<NameValue("trailing_padding", 2)>>, Unit)

\* struct Rec { a: u8, b: bool }
Rec ==
  Struct("Rec", <<>>, Named(<<Field("a", "u8", <<>>), Field("b", "bool", <<>>)>>))

\* #[trailing_padding=0] struct RecZero { #[padding=0] a: u8, #[padding=0] b: bool }
RecZero ==
  Struct("RecZero", <<NameValue("trailing_padding", 0)>>,
         Named(<<Field("a", "u8", Padding(0)), Field("b", "bool", Padding(0))>>))

\* struct Flag(bool)
Flag == Struct("Flag", <<>>, Unnamed(<<Field("0", "bool", <<>>)>>))

\* struct Pad4 { #[padding=1] a: u32 }
Pad4 == Struct("Pad4", <<>>, Named(<<Field("a", "u32", Padding(1))>>))

\* #[trailing_padding=1] struct RecPad { #[padding=1] a: u8, #[padding=2] b: bool }
RecPad ==
  Struct("RecPad", <<NameValue("trailing_padding", 1)>>,
         Named(<<Field("a", "u8", Padding(1)), Field("b", "bool", Padding(2))>>))

\* #[repr(u8)] enum Data { A, B(u8), C { a: u16, b: bool } }
Data ==
  Enum("Data", <<Repr("u8")>>,
       <<Variant("A", None, Unit),
         Variant("B", None, Unnamed(<<Field("0", "u8", <<>>)>>)),
         Variant("C", None, Named(<<Field("a", "u16", <<>>),
                                    Field("b", "bool", <<>>)>>))>>)

\* #[repr(u8)] #[post_disc_padding=0] #[trailing_padding=0]
\* enum DataZero { A, B(#[padding=0] u8) }
DataZero ==
  Enum("DataZero",
       <<Repr("u8"), NameValue("post_disc_padding", 0),
         NameValue("trailing_padding", 0)>>,
       <<Variant("A", None, Unit),
         Variant("B", None, Unnamed(<<Field("0", "u8", Padding(0))>>))>>)

\* #[repr(u16)] #[post_disc_padding=2] #[trailing_padding=1]
\* enum DataPad { A, B(#[padding=1] u8), C = 513 { a: u16, #[padding=1] b: bool } }
DataPad ==
  Enum("DataPad",
       <<Repr("u16"), NameValue("post_disc_padding", 2),
         NameValue("trailing_padding", 1)>>,
       <<Variant("A", None, Unit),
         Variant("B", None, Unnamed(<<Field("0", "u8", Padding(1))>>)),
         Variant("C", Some(513), Named(<<Field("a", "u16", <<>>),
                                         Field("b", "bool", Padding(1))>>))>>)

\* #[repr(u8)] #[post_disc_padding=1] #[trailing_padding=1]
\* enum Post { A, B(u8) }
Post ==
  Enum("Post",
       <<Repr("u8"), NameValue("post_disc_padding", 1),
         NameValue("trailing_padding", 1)>>,
       <<Variant("A", None, Unit),
         Variant("B", None, Unnamed(<<Field("0", "u8", <<>>)>>))>>)

\* #[repr(C, u8)] enum Tagged { A = 1, B(bool), C = 0, D }
\* (D resolves to 1, the value A has: the macro does not look for collisions)
Tagged ==
  Enum("Tagged", <<MetaList("repr", <<"C", "u8">>)>>,
       <<Variant("A", Some(1), Unit),
         Variant("B", None, Unnamed(<<Field("0", "bool", <<>>)>>)),
         Variant("C", Some(0), Unit), Variant("D", None, Unit)>>)

\* enum NoRepr { A, B(u8) }
NoRepr ==
  Enum("NoRepr", <<>>,
       <<Variant("A", None, Unit),
         Variant("B", None, Unnamed(<<Field("0", "u8", <<>>)>>))>>)

\* #[repr(C)] enum ReprC { A, B(u8) }
ReprC ==
  Enum("ReprC", <<MetaList("repr", <<"C">>)>>,
       <<Variant("A", None, Unit),
         Variant("B", None, Unnamed(<<Field("0", "u8", <<>>)>>))>>)

\* #[repr(transparent)] enum ReprTransparent { B(u8) }
ReprTransparent ==
  Enum("ReprTransparent", <<MetaList("repr", <<"transparent">>)>>,
       <<Variant("B", None, Unnamed(<<Field("0", "u8", <<>>)>>))>>)

\* #[pre_disc_padding=1] #[repr(u8)] enum Pre { A, B(u8) }
Pre ==
  Enum("Pre", <<NameValue("pre_disc_padding", 1), Repr("u8")>>,
       <<Variant("A", None, Unit),
         Variant("B", None, Unnamed(<<Field("0", "u8", <<>>)>>))>>)

\* #[trailing_padding=1] struct Outer { x: Plain, #[padding=1] y: Pair }
Outer ==
  Struct("Outer", <<NameValue("trailing_padding", 1)>>,
         Named(<<Field("x", "Plain", <<>>), Field("y", "Pair", Padding(1))>>))

\* struct Opt { a: Option<u16> }
Opt == Struct("Opt", <<>>, Named(<<Field("a", "Option<u16>", <<>>)>>))

\* struct OptTail { a: Option<u8>, b: u8 }
OptTail ==
  Struct("OptTail", <<>>,
         Named(<<Field("a", "Option<u8>", <<>>), Field("b", "u8", <<>>)>>))

\* struct Batch { items: Vec<u16> }
Batch == Struct("Batch", <<>>, Named(<<Field("items", "Vec<u16>", <<>>)>>))

\* struct BatchTail { #[padding=1] items: Vec<u8>, b: u8 }
BatchTail ==
  Struct("BatchTail", <<>>,
         Named(<<Field("items", "Vec<u8>", Padding(1)), Field("b", "u8", <<>>)>>))

Inputs ==
  {Plain, Pair, Riap, Empty, Tail2, Flag, Rec, RecZero, RecPad, Pad4, Data, DataZero,
   DataPad, Post, Tagged, NoRepr, ReprC, ReprTransparent, Pre, Outer, Opt, OptTail, Batch,
   BatchTail}

\* the declaration without its padding annotations of count 0, on the type
\* and on every field
StrippedAttrs(attrs) ==
  SelectSeq(attrs, LAMBDA a : ~(a.nested = <<>> /\ a.lit = 0))
StrippedFields(fields) ==
  [fields EXCEPT !.list =
     [i \in DOMAIN fields.list |->
        [fields.list[i] EXCEPT !.attrs = StrippedAttrs(@)]]]
Stripped(decl) ==
  [decl EXCEPT !.attrs = StrippedAttrs(@),
               !.fields = StrippedFields(@),
               !.variants = [i \in DOMAIN decl.variants |->
                               [decl.variants[i] EXCEPT !.fields = StrippedFields(@)]]]

\* the declaration a field's type names, for a field of a derived type
TypeDecl(ty) == CASE ty = "Plain" -> Plain
                  [] ty = "Pair" -> Pair

\* the where clause of the generated Serialize impl: a Serialize impl for a
\* reference to the type of every field; the impl applies only when it holds
RECURSIVE where_clause_serialize(_)
where_clause_serialize(decl) ==
  LET holds(fields) ==
        \A i \in DOMAIN fields.list :
          LET ty == fields.list[i].ty
          IN  \/ ImplementsSerialize(ty)
              \/ /\ ty \notin Primitives \cup OptionTypes \cup SeqTypes
                 /\ where_clause_serialize(TypeDecl(ty))
  IN  IF decl.data = "Struct" THEN holds(decl.fields)
      ELSE \A i \in DOMAIN decl.variants : holds(decl.variants[i].fields)

\* the where clause of the generated Deserialize impl: a Deserialize impl for
\* the type of every field
RECURSIVE where_clause_deserialize(_)
where_clause_deserialize(decl) ==
  LET holds(fields) ==
        \A i \in DOMAIN fields.list :
          LET ty == fields.list[i].ty
          IN  \/ ImplementsDeserialize(ty)
              \/ /\ ty \notin Primitives \cup OptionTypes \cup SeqTypes
                 /\ where_clause_deserialize(TypeDecl(ty))
  IN  IF decl.data = "Struct" THEN holds(decl.fields)
      ELSE \A i \in DOMAIN decl.variants : holds(decl.variants[i].fields)

(***************************************************************************)
(* What the compiler fixes about an enum: the tag it stores in a value.    *)
(***************************************************************************)
\* a tag that is the variant's position, whatever discriminants are declared
tag_of_position(variants, i) == i - 1

\* the discriminant rustc gives variant i: its explicit value, else one more
\* than the previous variant's, the first being 0; this is the tag that
\* `*(self as *const Name as *const ty)` reads for a value of variant i
RECURSIVE tag_of(_, _)
tag_of(variants, i) ==
  IF IsSome(variants[i].discriminant) THEN Unwrap(variants[i].discriminant)
  ELSE IF i = 1 THEN 0 ELSE tag_of(variants, i - 1) + 1

\* values of an enum exist only if the compiler accepts it: no two variants
\* with the same discriminant (E0081)
DistinctTags(input) ==
  \A i, j \in DOMAIN input.variants :
    i # j => tag_of(input.variants, i) # tag_of(input.variants, j)

\* index of the variant named ident
VariantIndex(variants, ident) ==
  CHOOSE i \in DOMAIN variants : variants[i].ident = ident

(***************************************************************************)
(* Values.  An instance of a derived type is <<ident, fields>>: the struct *)
(* or variant name and the field values in declaration order.              *)
(***************************************************************************)
\* the value of 16 * Len(limbs) bits whose 16-bit parts are limbs, most
\* significant first
RECURSIVE Wide(_)
Wide(limbs) ==
  IF Len(limbs) = 1 THEN limbs[1]
  ELSE <<Wide(SubSeq(limbs, 1, Len(limbs) - 1)), limbs[Len(limbs)]>>

Values(ty) ==
  CASE ty = "u8" -> {7, 255}
    [] ty = "u16" -> {257, 513, 44474}
    [] ty = "u32" -> {<<47789, 61453>>, <<3568, 44474>>}
    [] ty = "u64" -> {Wide(<<47789, 61453, 47789, 61453>>), Wide(<<0, 0, 0, 1>>),
                      Wide(<<65535, 65535, 65535, 65535>>)}
    [] ty = "u128" -> {Wide(<<47789, 61453, 47789, 61453, 47789, 61453, 47789, 61453>>),
                       Wide(<<32768, 0, 0, 0, 0, 0, 0, 0>>),
                       Wide(<<0, 1, 2, 3, 4, 5, 6, 7>>)}
    [] ty = "i8" -> {-128, -1, 0, 127}
    [] ty = "i16" -> {-32768, -2, 258, 32767}
    [] ty = "i32" -> {<<-32768, 0>>, <<-1, 65534>>, <<3568, 44474>>}
    [] ty = "i64" -> {Wide(<<-32768, 0, 0, 0>>), Wide(<<-1, 65535, 65535, 65535>>),
                      Wide(<<32767, 65535, 65535, 65535>>),
                      Wide(<<-17747, 61453, 47789, 61453>>)}
    [] ty = "i128" -> {Wide(<<-32768, 0, 0, 0, 0, 0, 0, 0>>),
                       Wide(<<-1, 65535, 65535, 65535, 65535, 65535, 65535, 65534>>),
                       Wide(<<258, 1, 2, 3, 4, 5, 6, 7>>)}
    [] ty = "bool" -> {FALSE, TRUE}

\* the Vecs of at most two elements
VecValues(S) ==
  {<<>>} \cup {<<a>> : a \in Values(S)} \cup {<<a, b>> : a, b \in Values(S)}

RECURSIVE Instances(_)
RECURSIVE FieldValues(_, _)
FieldValues(list, i) ==
  IF i > Len(list) THEN {<<>>}
  ELSE LET heads == IF list[i].ty \in Primitives THEN Values(list[i].ty)
                    ELSE IF list[i].ty \in OptionTypes
                    THEN {None} \cup {Some(v) : v \in Values(Payload(list[i].ty))}
                    ELSE IF list[i].ty \in SeqTypes
                    THEN VecValues(Elem(list[i].ty))
                    ELSE Instances(TypeDecl(list[i].ty))
       IN  {<<h>> \o t : h \in heads, t \in FieldValues(list, i + 1)}

Instances(input) ==
  IF input.data = "Struct"
  THEN {<<input.ident, fs>> : fs \in FieldValues(input.fields.list, 1)}
  ELSE UNION {{<<input.variants[i].ident, fs>> :
                 fs \in FieldValues(input.variants[i].fields.list, 1)} :
              i \in DOMAIN input.variants}

\* the bytes a reader's stream is made of, when it is not a writer's output
ByteSamples == {0, 1, 2, 42, 43, 255}

RECURSIVE StreamsOfLen(_)
StreamsOfLen(n) ==
  IF n = 0 THEN {<<>>}
  ELSE {Append(s, b) : s \in StreamsOfLen(n - 1), b \in ByteSamples}

Streams == UNION {StreamsOfLen(n) : n \in 0..MaxLen}

(***************************************************************************)
(* The wire layout the specification states (its sections 4.2 and 6), as   *)
(* a sequence of segments [kind, bytes]; the generated code is checked     *)
(* against it.  A gap of zero bytes is no segment.                         *)
(***************************************************************************)
\* the byte count an annotation gives; absence means zero bytes
AnnotCount(attrs, name) ==
  LET S == {i \in DOMAIN attrs : attrs[i].path = name}
  IN  IF S = {} THEN 0 ELSE attrs[CHOOSE i \in S : \A j \in S : i <= j].lit

\* the declared discriminant underlying type
DiscType(input) ==
  CHOOSE t \in IntTypes :
    \E i \in DOMAIN input.attrs :
      /\ input.attrs[i].path = "repr"
      /\ \E j \in DOMAIN input.attrs[i].nested : input.attrs[i].nested[j] = t

\* the numbering rule: the last explicit override at or before variant i,
\* plus the number of variants since; counting from 0 when there is none
Resolved(variants, i) ==
  LET X == {k \in 1..i : IsSome(variants[k].discriminant)}
  IN  IF X = {} THEN i - 1
      ELSE LET k == CHOOSE m \in X : \A j \in X : j <= m
           IN  Unwrap(variants[k].discriminant) + (i - k)

ResolvedSet(variants) == {Resolved(variants, i) : i \in DOMAIN variants}

\* a plain integer of n bytes in byte order E
WireInt(E, n, v) ==
  IF n = 1 THEN <<v>>
  ELSE IF n = 4
  THEN IF E = BigEndian
       THEN <<v[1] \div 256, v[1] % 256, v[2] \div 256, v[2] % 256>>
       ELSE <<v[2] % 256, v[2] \div 256, v[1] % 256, v[1] \div 256>>
  ELSE IF E = BigEndian THEN <<v \div 256, v % 256>> ELSE <<v % 256, v \div 256>>

WirePrim(ty, E, v) ==
  IF ty = "bool" THEN <<IF v THEN 1 ELSE 0>> ELSE WireInt(E, size_of(ty), v)

\* the integer n <= 2 wire bytes hold in byte order E
WireValue(E, bytes) ==
  IF Len(bytes) = 1 THEN bytes[1]
  ELSE IF E = BigEndian THEN 256 * bytes[1] + bytes[2] ELSE bytes[1] + 256 * bytes[2]

Seg(kind, bytes) == IF bytes = <<>> THEN <<>> ELSE <<[kind |-> kind, bytes |-> bytes]>>
Gap(attrs, name) == Seg("padding", Zeros(AnnotCount(attrs, name)))

\* a sequence: its elements one after another, nothing before or after
RECURSIVE ElemsLayout(_, _, _)
ElemsLayout(S, E, elems) ==
  IF elems = <<>> THEN <<>>
  ELSE Seg("field", WirePrim(S, E, elems[1])) \o ElemsLayout(S, E, Tail(elems))

RECURSIVE Layout(_, _, _)
RECURSIVE FieldsLayout(_, _, _, _)
FieldsLayout(list, vals, E, i) ==
  IF i > Len(list) THEN <<>>
  ELSE Gap(list[i].attrs, "padding")
         \o (IF list[i].ty \in Primitives
             THEN Seg("field", WirePrim(list[i].ty, E, vals[i]))
             ELSE IF list[i].ty \in OptionTypes
             THEN IF IsSome(vals[i])
                  THEN Seg("field", <<1>>)
                         \o Seg("field", WirePrim(Payload(list[i].ty), E, Unwrap(vals[i])))
                  ELSE Seg("field", <<0>>)
             ELSE IF list[i].ty \in SeqTypes
             THEN ElemsLayout(Elem(list[i].ty), E, vals[i])
             ELSE Layout(TypeDecl(list[i].ty), E, vals[i]))
         \o FieldsLayout(list, vals, E, i + 1)

\* record: [pad(f1)] f1 ... [pad(fn)] fn [trailing_pad]
\* union:  [pre_disc_pad] disc [post_disc_pad] <variant's record layout> [trailing_pad]
Layout(input, E, v) ==
  IF input.data = "Struct"
  THEN FieldsLayout(input.fields.list, v[2], E, 1)
         \o Gap(input.attrs, "trailing_padding")
  ELSE LET i == VariantIndex(input.variants, v[1])
       IN  Gap(input.attrs, "pre_disc_padding")
             \o Seg("disc", WireInt(E, size_of(DiscType(input)),
                                    Resolved(input.variants, i)))
             \o Gap(input.attrs, "post_disc_padding")
             \o FieldsLayout(input.variants[i].fields.list, v[2], E, 1)
             \o Gap(input.attrs, "trailing_padding")

\* the bytes of a layout
RECURSIVE Flatten(_)
Flatten(segs) == IF segs = <<>> THEN <<>> ELSE segs[1].bytes \o Flatten(Tail(segs))

\* the kinds and lengths of a layout
Shape(segs) == [i \in DOMAIN segs |-> <<segs[i].kind, Len(segs[i].bytes)>>]

\* the stream positions (from 1) a layout gives to padding
RECURSIVE PaddingAt(_, _)
PaddingAt(segs, from) ==
  IF segs = <<>> THEN {}
  ELSE (IF segs[1].kind = "padding" THEN (from + 1)..(from + Len(segs[1].bytes))
        ELSE {})
         \cup PaddingAt(Tail(segs), from + Len(segs[1].bytes))

(***************************************************************************)
(* State.                                                                  *)
(***************************************************************************)
VARIABLES
  input,      \* the declaration both derives were applied to
  entry,      \* the entry point in use: [trait, E, method]
  endian,     \* the byte order E of the outermost read/write call
  cap,        \* the writer: None for a Vec<u8>, Some(n) for a &mut [u8] of n bytes
  pc,         \* "declared" | "rejected" | "idle" | "running" | "done"
  call,       \* "" | "deserialize" | "serialize": the outermost call
  origin,     \* where the reader's stream or the written value comes from:
              \* "" | "stream" | "readback" | "truncated" | "redecode" |
              \* "value" | "writeback" | "twin" | "flipped"
  stack,      \* frames of the generated functions being run, innermost first
  reader,     \* [data, pos]: a byte slice being read
  writer,     \* the Vec<u8> being written
  ser,        \* the value handed to the outermost write call
  result,     \* the outermost call's io::Result, <<"None">> until it returns
  trace,      \* the channel operations of the current call, in order
  prev,       \* [result, data, trace] of the call before a redecode
  parked,     \* the call of another thread while that thread is not scheduled
  earlier     \* [written, decoded]: the values the earlier calls on the writer
              \* wrote, and <<instance, position after it>> for what the
              \* earlier calls on the reader decoded

vars ==
  <<input, entry, endian, cap, pc, call, origin, stack, reader, writer, ser, result, trace,
    prev, parked, earlier>>

NoResult == <<"None">>
NoEarlier == [written |-> <<>>, decoded |-> <<>>]
NoPrev == [result |-> NoResult, data |-> <<>>, trace |-> <<>>]

\* one frame: the generated function of frame.input, the statements still to
\* run, and its locals (disc, the variant being built or destructured, the
\* field values read so far, the value being written)
DeserFrame(decl) ==
  [input |-> decl, code |-> derive_deserialize(decl)[2], disc |-> None,
   variant |-> IF decl.data = "Struct" THEN decl.ident ELSE "",
   ret |-> <<>>, self |-> <<>>]
\* the frame of Option::<T>::deserialize
OptionFrame(ty) ==
  [input |-> [ident |-> ty, data |-> "Option"], code |-> deserialize_option(ty),
   disc |-> None, variant |-> "", ret |-> <<>>, self |-> <<>>]
SerFrame(decl, v) ==
  [input |-> decl, code |-> derive_serialize(decl)[2], disc |-> None,
   variant |-> v[1], ret |-> <<>>, self |-> v]

top == stack[1]
stmt == top.code[1]
Running(c) == pc = "running" /\ call = c /\ stack # <<>>
Advance(frame) == [frame EXCEPT !.code = Tail(@)]
ReplaceTop(frame) == <<frame>> \o Tail(stack)

\* one entry of trace: bytes [from, to) of the channel, read or written as
\* padding, as a discriminant or as a primitive field
Op(kind, from, to, ok) == [kind |-> kind, from |-> from, to |-> to, ok |-> ok]

(***************************************************************************)
(* The channel: std::io::Read for &[u8], std::io::Write for Vec<u8>.       *)
(***************************************************************************)
\* read_exact: the next n bytes, or UnexpectedEof when fewer are left
read_exact(r, n) ==
  IF r.pos + n <= Len(r.data)
  THEN Ok(SubSeq(r.data, r.pos + 1, r.pos + n))
  ELSE Err(<<"UnexpectedEof", "failed to fill whole buffer">>)

\* where a reader may stand after a failed read_exact: std leaves the number
\* of bytes consumed unspecified; a slice either stays or moves to its end
AfterShortRead(r) == {r.pos, Len(r.data)}

\* write_all: on a Vec<u8> it appends and never fails; on a &mut [u8] it fails
\* with WriteZero when the bytes do not fit what is left of the slice
write_all(w, c, bytes) ==
  IF IsSome(c) /\ Len(w) + Len(bytes) > Unwrap(c)
  THEN Err(<<"WriteZero", "failed to write whole buffer">>)
  ELSE Ok(w \o bytes)

\* a sink that a failed write_all leaves as it was before the call
AfterShortWriteRolledBack(w, c, bytes) == <<>>

\* what a &mut [u8] holds after a failed write_all: write copies what fits
AfterShortWrite(w, c, bytes) == w \o SubSeq(bytes, 1, Unwrap(c) - Len(w))

\* the declaration is in scope and nothing was expanded or called yet; every
\* call of the program goes through the entry point e
InitWith(decl, e) ==
  /\ input = decl
  /\ entry = e
  /\ endian = order_of(e)
  /\ cap = None
  /\ pc = "declared"
  /\ call = ""
  /\ origin = ""
  /\ stack = <<>>
  /\ reader = [data |-> <<>>, pos |-> 0]
  /\ writer = <<>>
  /\ ser = <<>>
  /\ result = NoResult
  /\ trace = <<>>
  /\ prev = NoPrev
  /\ parked = None
  /\ earlier = NoEarlier

\* programs that call read / write of ERead<E> / EWrite<E>
Init == \E decl \in Inputs : \E e \in AmbientEntries : InitWith(decl, e)

\* programs that call any method of any of the entry point traits
\* struct Int(ty) for each integer type ty
IntDecl(ty) == Struct("Int", <<>>, Unnamed(<<Field("0", ty, <<>>)>>))

\* programs that write and read back an integer of any width
InitInt == \E ty \in IntTypes : \E e \in AmbientEntries : InitWith(IntDecl(ty), e)

EntryInputs == {Outer, RecZero, OptTail, BatchTail}
InitEntry == \E decl \in EntryInputs : \E e \in Entries : InitWith(decl, e)

(***************************************************************************)
(* Macro expansion: #[derive(Deserialize, Serialize)] on the declaration.  *)
(* A panic of a macro or an unregistered attribute rejects the declaration *)
(* and leaves no generated function to call.                               *)
(***************************************************************************)
Derive ==
  /\ pc = "declared"
  /\ LET de == derive_deserialize(input)
         se == derive_serialize(input)
     IN  IF IsOk(de) /\ IsOk(se)
         THEN pc' = "idle" /\ UNCHANGED result
         ELSE pc' = "rejected" /\ result' = (IF IsErr(de) THEN de ELSE se)
  /\ UNCHANGED <<input, entry, endian, cap, call, origin, stack, reader, writer, ser, trace, prev, parked, earlier>>

(***************************************************************************)
(* ERead::read / EWrite::write (src/read.rs, src/write.rs): the outermost  *)
(* call, D::deserialize(self) resp. ser.serialize(self).                   *)
(***************************************************************************)
BeginDeserialize(data, from) ==
  /\ IsOk(derive_deserialize(input))
  /\ where_clause_deserialize(input)
  /\ reader' = [data |-> data, pos |-> 0]
  /\ stack' = <<DeserFrame(input)>>
  /\ pc' = "running"
  /\ call' = "deserialize"
  /\ origin' = from
  /\ result' = NoResult
  /\ trace' = <<>>

\* reader.read() on a reader over some byte slice
StartDeserialize ==
  /\ pc = "idle"
  /\ \E data \in Streams : BeginDeserialize(data, "stream")
  /\ UNCHANGED <<input, entry, endian, cap, writer, ser, prev, parked, earlier>>

\* writer.write(&v) on an empty Vec or on a slice of at most MaxLen bytes
StartSerialize ==
  /\ pc = "idle"
  /\ IsOk(derive_serialize(input))
  /\ where_clause_serialize(input)
  /\ DistinctTags(input)
  /\ \E v \in Instances(input) :
       /\ ser' = v
       /\ stack' = <<SerFrame(input, v)>>
  /\ cap' \in {None} \cup {Some(n) : n \in 0..MaxLen}
  /\ writer' = <<>>
  /\ pc' = "running"
  /\ call' = "serialize"
  /\ origin' = "value"
  /\ result' = NoResult
  /\ trace' = <<>>
  /\ UNCHANGED <<input, entry, endian, reader, prev, parked, earlier>>

\* writer.write(&v) on an empty Vec, v being the instance a read call just
\* returned
WriteBack ==
  /\ pc = "done" /\ call = "deserialize" /\ IsOk(result)
  /\ IsOk(derive_serialize(input))
  /\ where_clause_serialize(input)
  /\ DistinctTags(input)
  /\ ser' = result[2]
  /\ stack' = <<SerFrame(input, result[2])>>
  /\ cap' = None
  /\ writer' = <<>>
  /\ pc' = "running"
  /\ call' = "serialize"
  /\ origin' = "writeback"
  /\ result' = NoResult
  /\ trace' = <<>>
  /\ earlier' = [earlier EXCEPT !.written = <<>>]
  /\ UNCHANGED <<input, entry, endian, reader, prev, parked>>

\* reader.read() on a reader over the bytes a finished write call produced
ReadBack ==
  /\ pc = "done" /\ call = "serialize" /\ IsOk(result)
  /\ BeginDeserialize(writer, "readback")
  /\ earlier' = [earlier EXCEPT !.decoded = <<>>]
  /\ UNCHANGED <<input, entry, endian, cap, writer, ser, prev, parked>>

\* reader.read() on a reader over a proper prefix of the bytes a finished
\* write call produced
ReadTruncated ==
  /\ pc = "done" /\ call = "serialize" /\ IsOk(result)
  /\ \E n \in 0..(Len(writer) - 1) :
       BeginDeserialize(SubSeq(writer, 1, n), "truncated")
  /\ UNCHANGED <<input, entry, endian, cap, writer, ser, prev, parked, earlier>>

\* reader.read() on a second slice that differs from one just decoded to an
\* instance only at padding positions of that instance's layout
Redecode ==
  /\ pc = "done" /\ call = "deserialize" /\ origin # "redecode"
  /\ IsOk(result)
  /\ \E P \in SUBSET PaddingAt(Layout(input, endian, result[2]), 0) :
       \E b \in ByteSamples :
         LET data == [i \in DOMAIN reader.data |->
                        IF i \in P THEN b ELSE reader.data[i]]
         IN  /\ data # reader.data
             /\ BeginDeserialize(data, "redecode")
  /\ prev' = [result |-> result, data |-> reader.data, trace |-> trace]
  /\ UNCHANGED <<input, entry, endian, cap, writer, ser, parked, earlier>>

\* the call just finished, made again with the same stream or value on the
\* declaration that differs only in having no padding annotation where the
\* first has one of count 0
Twin ==
  /\ pc = "done" /\ origin # "twin"
  /\ Stripped(input) # input
  /\ input' = Stripped(input)
  /\ IF call = "deserialize"
     THEN /\ reader' = [data |-> reader.data, pos |-> 0]
          /\ stack' = <<DeserFrame(Stripped(input))>>
          /\ UNCHANGED <<writer, ser>>
     ELSE /\ stack' = <<SerFrame(Stripped(input), ser)>>
          /\ writer' = <<>>
          /\ UNCHANGED <<reader, ser>>
  /\ prev' = [result |-> result,
              data |-> IF call = "deserialize" THEN reader.data ELSE writer,
              trace |-> trace]
  /\ pc' = "running"
  /\ origin' = "twin"
  /\ result' = NoResult
  /\ trace' = <<>>
  /\ UNCHANGED <<entry, endian, cap, call, parked, earlier>>

\* the other byte order, and the entry point that has it as ambient order
Other(E) == IF E = BigEndian THEN LittleEndian ELSE BigEndian
Flip(e) == [e EXCEPT !.E = Other(@)]

\* writer.write(&v) on an empty Vec with EWrite of the other byte order, v
\* being the value just written
WriteFlipped ==
  /\ pc = "done" /\ call = "serialize" /\ origin = "value" /\ IsOk(result)
  /\ entry \in AmbientEntries
  /\ entry' = Flip(entry)
  /\ endian' = order_of(Flip(entry))
  /\ stack' = <<SerFrame(input, ser)>>
  /\ writer' = <<>>
  /\ prev' = [result |-> result, data |-> writer, trace |-> trace]
  /\ pc' = "running"
  /\ origin' = "flipped"
  /\ result' = NoResult
  /\ trace' = <<>>
  /\ UNCHANGED <<input, cap, call, reader, ser, parked, earlier>>

(***************************************************************************)
(* The generated fn deserialize, one statement at a time.                  *)
(***************************************************************************)
\* a return that hands the caller what was built so far
ReturnPartial(e) ==
  /\ pc' = "done"
  /\ result' = Ok(<<top.variant, top.ret>>)
  /\ stack' = <<>>

\* `?` on an Err: every frame returns it
Return(e) ==
  /\ pc' = "done"
  /\ result' = Err(e)
  /\ stack' = <<>>

ShortRead(kind, e) ==
  /\ \E p \in AfterShortRead(reader) :
       /\ reader' = [reader EXCEPT !.pos = p]
       /\ trace' = Append(trace, Op(kind, reader.pos, p, FALSE))
  /\ Return(e)

\* a read that takes n bytes and leaves the reader at the end of its slice
ReadOkDraining(kind, n) ==
  /\ reader' = [reader EXCEPT !.pos = Len(reader.data)]
  /\ trace' = Append(trace, Op(kind, reader.pos, reader.pos + n, TRUE))

ReadOk(kind, n) ==
  /\ reader' = [reader EXCEPT !.pos = @ + n]
  /\ trace' = Append(trace, Op(kind, reader.pos, reader.pos + n, TRUE))

DeserUnchanged == UNCHANGED <<input, entry, endian, cap, call, origin, writer, ser, prev, parked, earlier>>

\* a padding read that rejects a padding byte other than zero
ReadPaddingChecked ==
  /\ Running("deserialize") /\ stmt.op = "read_exact"
  /\ LET r == read_exact(reader, stmt.n)
     IN  IF IsErr(r) THEN ShortRead("padding", r[2])
         ELSE /\ ReadOk("padding", stmt.n)
              /\ IF r[2] = Zeros(stmt.n)
                 THEN /\ stack' = ReplaceTop(Advance(top))
                      /\ UNCHANGED <<pc, result>>
                 ELSE Return(<<"InvalidData", "padding was not zero">>)
  /\ DeserUnchanged

\* a padding read that takes the bytes that are left when fewer than n are
ReadPaddingLenient ==
  /\ Running("deserialize") /\ stmt.op = "read_exact"
  /\ LET left == Len(reader.data) - reader.pos
     IN  ReadOk("padding", IF stmt.n <= left THEN stmt.n ELSE left)
  /\ stack' = ReplaceTop(Advance(top))
  /\ UNCHANGED <<pc, result>>
  /\ DeserUnchanged

\* let mut padding = [0; n]; read_exact(reader, &mut padding)?;
ReadPadding ==
  /\ Running("deserialize") /\ stmt.op = "read_exact"
  /\ LET r == read_exact(reader, stmt.n)
     IN  IF IsOk(r)
         THEN /\ ReadOk("padding", stmt.n)
              /\ stack' = ReplaceTop(Advance(top))
              /\ UNCHANGED <<pc, result>>
         ELSE ShortRead("padding", r[2])
  /\ DeserUnchanged

\* let disc: ty = ERead::read(reader)?;
ReadDisc ==
  /\ Running("deserialize") /\ stmt.op = "read_disc"
  /\ LET r == read_exact(reader, size_of(stmt.ty))
     IN  IF IsOk(r)
         THEN /\ ReadOk("disc", size_of(stmt.ty))
              /\ stack' = ReplaceTop(
                   [Advance(top) EXCEPT
                      !.disc = Some(deserialize_int(stmt.ty, endian, r[2])[2])])
              /\ UNCHANGED <<pc, result>>
         ELSE ShortRead("disc", r[2])
  /\ DeserUnchanged

\* a match that takes the last arm whose guard holds
last_match(arms, disc) ==
  LET hits == {i \in DOMAIN arms : arms[i].value = disc}
  IN  IF hits = {} THEN None
      ELSE Some(CHOOSE i \in hits : \A j \in hits : j <= i)

\* a match whose fallback arm yields the first variant
first_match_or_default(arms, disc) ==
  LET hits == {i \in DOMAIN arms : arms[i].value = disc}
  IN  IF hits = {} THEN Some(1)
      ELSE Some(CHOOSE i \in hits : \A j \in hits : i <= j)

\* the first arm of `match disc` whose guard holds, if any
first_match(arms, disc) ==
  LET hits == {i \in DOMAIN arms : arms[i].value = disc}
  IN  IF hits = {} THEN None
      ELSE Some(CHOOSE i \in hits : \A j \in hits : i <= j)

\* let ret = match disc { arms, _ => return Err(InvalidData) };
MatchDisc ==
  /\ Running("deserialize") /\ stmt.op = "match"
  /\ LET disc == Unwrap(top.disc)
         hit == first_match(stmt.arms, disc)
     IN  IF IsSome(hit)
         THEN /\ stack' = ReplaceTop(
                   [top EXCEPT !.variant = stmt.arms[Unwrap(hit)].ident,
                               !.code = stmt.arms[Unwrap(hit)].body \o Tail(@)])
              /\ UNCHANGED <<pc, result>>
         ELSE Return(<<"InvalidData", "invalid discriminant value for",
                       top.input.ident, disc>>)
  /\ UNCHANGED <<reader, trace>>
  /\ DeserUnchanged

\* ERead::read(reader)? for a field of a primitive type
ReadField ==
  /\ Running("deserialize") /\ stmt.op = "read" /\ stmt.ty \in Primitives
  /\ LET r == read_exact(reader, size_of(stmt.ty))
         v == deserialize_prim(stmt.ty, endian, r[2])
     IN  IF IsErr(r) THEN ShortRead("field", r[2])
         ELSE /\ ReadOk("field", size_of(stmt.ty))
              /\ IF IsOk(v)
                 THEN /\ stack' = ReplaceTop(
                           [Advance(top) EXCEPT !.ret = Append(@, v[2])])
                      /\ UNCHANGED <<pc, result>>
                 ELSE Return(v[2])
  /\ DeserUnchanged

\* ERead::read(reader)? for a field of a derived type: D::deserialize(reader)
CallDeserialize ==
  /\ Running("deserialize") /\ stmt.op = "read"
  /\ stmt.ty \notin Primitives \cup OptionTypes
  /\ stack' = <<DeserFrame(TypeDecl(stmt.ty))>> \o stack
  /\ UNCHANGED <<pc, result, reader, trace>>
  /\ DeserUnchanged

\* Ok(ret)
DeserializeReturn ==
  /\ Running("deserialize") /\ stmt.op = "ok"
  /\ LET ret == <<top.variant, top.ret>>
     IN  IF Len(stack) = 1
         THEN /\ pc' = "done"
              /\ result' = Ok(ret)
              /\ stack' = <<>>
         ELSE /\ stack' = <<[Advance(stack[2]) EXCEPT !.ret = Append(@, ret)]>>
                            \o SubSeq(stack, 3, Len(stack))
              /\ UNCHANGED <<pc, result>>
  /\ UNCHANGED <<reader, trace>>
  /\ DeserUnchanged

\* ERead::read(reader)? for a field of type Option<T>
CallDeserializeOption ==
  /\ Running("deserialize") /\ stmt.op = "read" /\ stmt.ty \in OptionTypes
  /\ stack' = <<OptionFrame(stmt.ty)>> \o stack
  /\ UNCHANGED <<pc, result, reader, trace>>
  /\ DeserUnchanged

\* a function's Ok(v): the caller's read yields v
ReturnOk(v) ==
  IF Len(stack) = 1
  THEN /\ pc' = "done"
       /\ result' = Ok(v)
       /\ stack' = <<>>
  ELSE /\ stack' = <<[Advance(stack[2]) EXCEPT !.ret = Append(@, v)]>>
                     \o SubSeq(stack, 3, Len(stack))
       /\ UNCHANGED <<pc, result>>

\* an Option decode that reads a payload whatever the flag is
IfIsSomeAlways ==
  /\ Running("deserialize") /\ stmt.op = "if_is_some"
  /\ stack' = ReplaceTop([top EXCEPT !.ret = <<>>,
                                     !.code = <<Stmt("read", 0, stmt.ty, <<>>),
                                                Stmt("some", 0, "", <<>>)>>])
  /\ UNCHANGED <<pc, result, reader, trace>>
  /\ DeserUnchanged

\* Ok(if is_some { Some(reader.read()?) } else { None })
IfIsSome ==
  /\ Running("deserialize") /\ stmt.op = "if_is_some"
  /\ LET is_some == top.ret[1]
     IN  IF is_some
         THEN /\ stack' = ReplaceTop(
                   [top EXCEPT !.ret = <<>>,
                               !.code = <<Stmt("read", 0, stmt.ty, <<>>),
                                          Stmt("some", 0, "", <<>>)>>])
              /\ UNCHANGED <<pc, result>>
         ELSE ReturnOk(None)
  /\ UNCHANGED <<reader, trace>>
  /\ DeserUnchanged

\* Some(v), v being what reader.read()? returned
SomeReturn ==
  /\ Running("deserialize") /\ stmt.op = "some"
  /\ ReturnOk(Some(top.ret[1]))
  /\ UNCHANGED <<reader, trace>>
  /\ DeserUnchanged

(***************************************************************************)
(* The generated fn serialize, one statement at a time.                    *)
(***************************************************************************)
SerUnchanged == UNCHANGED <<input, entry, endian, cap, call, origin, reader, ser, prev, parked, earlier>>

WriteOk(kind, bytes) ==
  /\ writer' = write_all(writer, cap, bytes)[2]
  /\ trace' = Append(trace, Op(kind, Len(writer), Len(writer) + Len(bytes), TRUE))
  /\ UNCHANGED <<pc, result>>

ShortWrite(kind, bytes) ==
  /\ writer' = AfterShortWrite(writer, cap, bytes)
  /\ trace' = Append(trace, Op(kind, Len(writer), Unwrap(cap), FALSE))
  /\ Return(write_all(writer, cap, bytes)[2])

\* write_all(writer, bytes)? followed by the rest of the frame
WriteThen(kind, bytes, frame) ==
  IF IsOk(write_all(writer, cap, bytes))
  THEN WriteOk(kind, bytes) /\ stack' = ReplaceTop(frame)
  ELSE ShortWrite(kind, bytes)

\* let mut padding = [0; n]; write_all(writer, &padding)?;
WritePadding ==
  /\ Running("serialize") /\ stmt.op = "write_all"
  /\ WriteThen("padding", Zeros(stmt.n), Advance(top))
  /\ SerUnchanged

\* let disc = unsafe { *(self as *const Name as *const ty) };
\* EWrite::write(writer, disc)?;
WriteDisc ==
  /\ Running("serialize") /\ stmt.op = "write_disc"
  /\ LET variants == top.input.variants
         disc == tag_of(variants, VariantIndex(variants, top.self[1]))
     IN  WriteThen("disc", serialize_int(stmt.ty, endian, disc),
                   [Advance(top) EXCEPT !.disc = Some(disc)])
  /\ SerUnchanged

\* match self { arms }: the arm whose pattern names self's variant
MatchSelf ==
  /\ Running("serialize") /\ stmt.op = "match_self"
  /\ LET i == CHOOSE j \in DOMAIN stmt.arms : stmt.arms[j].ident = top.self[1]
     IN  stack' = ReplaceTop([top EXCEPT !.code = stmt.arms[i].body \o Tail(@)])
  /\ UNCHANGED <<pc, result, writer, trace>>
  /\ SerUnchanged

\* EWrite::write(writer, field)? for a field of a primitive type
WriteField ==
  /\ Running("serialize") /\ stmt.op = "write" /\ stmt.ty \in Primitives
  /\ WriteThen("field", serialize_prim(stmt.ty, endian, top.self[2][stmt.n]),
               Advance(top))
  /\ SerUnchanged

\* EWrite::write(writer, field)? for a field of a derived type
CallSerialize ==
  /\ Running("serialize") /\ stmt.op = "write"
  /\ stmt.ty \notin Primitives \cup SeqTypes
  /\ stack' = <<SerFrame(TypeDecl(stmt.ty), top.self[2][stmt.n])>> \o stack
  /\ UNCHANGED <<pc, result, writer, trace>>
  /\ SerUnchanged

\* EWrite::write(writer, field)? for a field of type Vec<S>
CallSerializeVec ==
  /\ Running("serialize") /\ stmt.op = "write" /\ stmt.ty \in SeqTypes
  /\ stack' = <<[input |-> [ident |-> stmt.ty, data |-> "Vec"],
                 code |-> serialize_vec(stmt.ty), disc |-> None, variant |-> "",
                 ret |-> <<>>, self |-> top.self[2][stmt.n]]>> \o stack
  /\ UNCHANGED <<pc, result, writer, trace>>
  /\ SerUnchanged

\* writer.write(self.as_slice()): <&[S]>::serialize of the slice, whose
\* result is the Vec's
WriteSlice ==
  /\ Running("serialize") /\ stmt.op = "as_slice"
  /\ stack' = ReplaceTop([top EXCEPT !.input.data = "slice",
                                     !.code = serialize_slice(stmt.ty),
                                     !.self = as_slice(top.self)])
  /\ UNCHANGED <<pc, result, writer, trace>>
  /\ SerUnchanged

\* for elem in self { writer.write(elem)?; }
ForElem ==
  /\ Running("serialize") /\ stmt.op = "for"
  /\ IF top.self = <<>>
     THEN /\ stack' = ReplaceTop(Advance(top))
          /\ UNCHANGED <<pc, result, writer, trace>>
     ELSE WriteThen("field", serialize_prim(stmt.ty, endian, Head(top.self)),
                    [top EXCEPT !.self = Tail(@)])
  /\ SerUnchanged

\* Ok(())
SerializeReturn ==
  /\ Running("serialize") /\ stmt.op = "ok"
  /\ IF Len(stack) = 1
     THEN /\ pc' = "done"
          /\ result' = Ok(<<>>)
          /\ stack' = <<>>
     ELSE /\ stack' = <<Advance(stack[2])>> \o SubSeq(stack, 3, Len(stack))
          /\ UNCHANGED <<pc, result>>
  /\ UNCHANGED <<writer, trace>>
  /\ SerUnchanged

Next ==
  \/ Derive
  \/ StartDeserialize
  \/ StartSerialize
  \/ ReadBack
  \/ ReadTruncated
  \/ Redecode
  \/ WriteBack
  \/ Twin
  \/ WriteFlipped
  \/ ReadPadding
  \/ ReadDisc
  \/ MatchDisc
  \/ ReadField
  \/ CallDeserialize
  \/ DeserializeReturn
  \/ CallDeserializeOption
  \/ IfIsSome
  \/ SomeReturn
  \/ WritePadding
  \/ WriteDisc
  \/ MatchSelf
  \/ WriteField
  \/ CallSerialize
  \/ CallSerializeVec
  \/ WriteSlice
  \/ ForElem
  \/ SerializeReturn

Spec == Init /\ [][Next]_vars

SpecEntry == InitEntry /\ [][Next]_vars

(***************************************************************************)
(* Several calls, one after another, on one writer and then on one reader. *)
(***************************************************************************)
\* the most calls made on one channel
MaxCalls == 3

StreamInputs == {Plain, RecPad, Data}
InitStream ==
  \E decl \in StreamInputs : \E e \in AmbientEntries : InitWith(decl, e)

\* writer.write(&v) on the Vec the call before wrote to
WriteNext ==
  /\ pc = "done" /\ call = "serialize" /\ IsOk(result) /\ origin = "value"
  /\ Len(earlier.written) + 1 < MaxCalls
  /\ earlier' = [earlier EXCEPT !.written = Append(@, ser)]
  /\ \E v \in Instances(input) :
       /\ ser' = v
       /\ stack' = <<SerFrame(input, v)>>
  /\ pc' = "running"
  /\ result' = NoResult
  /\ trace' = <<>>
  /\ UNCHANGED <<input, entry, endian, cap, call, origin, reader, writer, prev, parked>>

\* reader.read() on the reader the call before returned an instance from
ReadNext ==
  /\ pc = "done" /\ call = "deserialize" /\ IsOk(result)
  /\ Len(earlier.decoded) + 1 < MaxCalls
  /\ earlier' = [earlier EXCEPT !.decoded = Append(@, <<result[2], reader.pos>>)]
  /\ stack' = <<DeserFrame(input)>>
  /\ pc' = "running"
  /\ result' = NoResult
  /\ trace' = <<>>
  /\ UNCHANGED <<input, entry, endian, cap, call, origin, reader, writer, ser, prev,
                 parked>>

NextStream ==
  \/ Derive
  \/ StartDeserialize
  \/ StartSerialize
  \/ WriteNext
  \/ ReadBack
  \/ ReadNext
  \/ WriteBack
  \/ ReadPadding
  \/ ReadDisc
  \/ MatchDisc
  \/ ReadField
  \/ DeserializeReturn
  \/ WritePadding
  \/ WriteDisc
  \/ MatchSelf
  \/ WriteField
  \/ SerializeReturn

SpecStream == InitStream /\ [][NextStream]_vars

NextInt ==
  \/ Derive
  \/ StartSerialize
  \/ MatchSelf
  \/ WriteField
  \/ SerializeReturn
  \/ WriteFlipped
  \/ ReadBack
  \/ ReadTruncated
  \/ ReadField
  \/ DeserializeReturn

SpecInt == InitInt /\ [][NextInt]_vars

(***************************************************************************)
(* Two threads, each making one call on a reader or writer of its own.     *)
(* A call's state is its receiver (&mut self: the channel), its arguments  *)
(* and the frames and locals of the functions it runs; the generated code  *)
(* and the library have no static and no shared buffer.  One thread runs   *)
(* at a time; the scheduler may switch between any two steps.              *)
(***************************************************************************)
\* a call that is about to take its first step
Context(decl, e, c, from, frames, data, v) ==
  [input |-> decl, entry |-> e, endian |-> order_of(e), cap |-> None,
   pc |-> "running", call |-> c, origin |-> from, stack |-> frames,
   reader |-> [data |-> data, pos |-> 0], writer |-> <<>>, ser |-> v,
   result |-> NoResult, trace |-> <<>>]
ReadCall(decl, e, data, from) ==
  Context(decl, e, "deserialize", from, <<DeserFrame(decl)>>, data, <<>>)
WriteCall(decl, e, v, from) ==
  Context(decl, e, "serialize", from, <<SerFrame(decl, v)>>, <<>>, v)

\* the call of the thread that is running
Current ==
  [input |-> input, entry |-> entry, endian |-> endian, cap |-> cap, pc |-> pc,
   call |-> call, origin |-> origin, stack |-> stack, reader |-> reader,
   writer |-> writer, ser |-> ser, result |-> result, trace |-> trace]

\* the thread of call c is the one that runs next
Resume(c) ==
  /\ input' = c.input
  /\ entry' = c.entry
  /\ endian' = c.endian
  /\ cap' = c.cap
  /\ pc' = c.pc
  /\ call' = c.call
  /\ origin' = c.origin
  /\ stack' = c.stack
  /\ reader' = c.reader
  /\ writer' = c.writer
  /\ ser' = c.ser
  /\ result' = c.result
  /\ trace' = c.trace

\* the declarations, values and streams of the calls the threads make
ConcurrentInputs == {Outer, OptTail}
ConcurrentValues(decl) ==
  IF decl = Outer
  THEN {<<"Outer", <<<<"C", <<>>>>, <<"Pair", <<7, 513>>>>>>>>,
        <<"Outer", <<<<"B", <<>>>>, <<"Pair", <<255, 44474>>>>>>>>}
  ELSE {<<"OptTail", <<None, 7>>>>, <<"OptTail", <<Some(255), 7>>>>}
ConcurrentStreams(decl, E) ==
  {<<255, 255, 255>>}
    \cup UNION {{b, SubSeq(b, 1, Len(b) - 1)} :
                b \in {Flatten(Layout(decl, E, v)) : v \in ConcurrentValues(decl)}}
ConcurrentCalls(decl, e, from) ==
  {ReadCall(decl, e, d, from) : d \in ConcurrentStreams(decl, order_of(e))}
    \cup (IF where_clause_serialize(decl)
          THEN {WriteCall(decl, e, v, from) : v \in ConcurrentValues(decl)}
          ELSE {})

InitConcurrent ==
  \E decl \in ConcurrentInputs : \E e \in AmbientEntries : InitWith(decl, e)

\* a call made while no other thread exists
StartAlone ==
  /\ pc = "idle"
  /\ \E c \in ConcurrentCalls(input, entry, "alone") : Resume(c)
  /\ UNCHANGED <<prev, parked, earlier>>

\* the call that ran alone, made again on a fresh reader over the same bytes
\* or a fresh Vec
Again(c) ==
  IF c.call = "deserialize"
  THEN ReadCall(c.input, c.entry, c.reader.data, "concurrent")
  ELSE WriteCall(c.input, c.entry, c.ser, "concurrent")

\* the same call made again while a second thread makes a call of its own,
\* on its own reader or writer
Spawn ==
  /\ pc = "done" /\ origin = "alone"
  /\ prev' = [result |-> result,
              data |-> IF call = "deserialize" THEN reader.data ELSE writer,
              trace |-> trace]
  /\ Resume(Again(Current))
  /\ \E decl \in ConcurrentInputs : \E e \in AmbientEntries :
       \E c \in ConcurrentCalls(decl, e, "other") : parked' = Some(c)
  /\ UNCHANGED earlier

\* a switch after which the thread scheduled drives the channel of the
\* thread that ran before it
SwitchSharingChannel ==
  /\ IsSome(parked) /\ Unwrap(parked).pc = "running"
  /\ Resume([Unwrap(parked) EXCEPT !.reader = reader, !.writer = writer])
  /\ parked' = Some(Current)
  /\ UNCHANGED <<prev, earlier>>

\* the scheduler runs the other thread, which has a step left to take
Switch ==
  /\ IsSome(parked) /\ Unwrap(parked).pc = "running"
  /\ Resume(Unwrap(parked))
  /\ parked' = Some(Current)
  /\ UNCHANGED <<prev, earlier>>

NextConcurrent ==
  \/ Derive
  \/ StartAlone
  \/ Spawn
  \/ Switch
  \/ ReadPadding
  \/ ReadDisc
  \/ MatchDisc
  \/ ReadField
  \/ CallDeserialize
  \/ DeserializeReturn
  \/ CallDeserializeOption
  \/ IfIsSome
  \/ SomeReturn
  \/ WritePadding
  \/ WriteDisc
  \/ MatchSelf
  \/ WriteField
  \/ CallSerialize
  \/ SerializeReturn

SpecConcurrent == InitConcurrent /\ [][NextConcurrent]_vars

(***************************************************************************)
(* Properties.                                                             *)
(***************************************************************************)
Done(c) == pc = "done" /\ call = c

\* C1: round trip: decoding the bytes a write call produced for an instance,
\* under the byte order they were written in, returns that instance, for
\* records and unions, padded or not, in either byte order.
C1_RoundTrip ==
  (Done("deserialize") /\ origin = "readback") => result = Ok(ser)

C1_Witness ==
  /\ Done("deserialize") /\ origin = "readback"
  /\ input = DataPad /\ endian = LittleEndian
  /\ ser = <<"C", <<44474, TRUE>>>>
  /\ result = Ok(ser)

\* C2: discriminant numbering: the guard of the i-th arm of the generated
\* match is the last explicit override at or before variant i plus the
\* number of variants since (counting from 0 without one), a selected
\* variant is one whose number was read, and for A, B, C = 42, D the wire
\* values 0, 1, 42, 43 decode to A, B, C, D.
C2_DiscriminantNumbering ==
  /\ \A k \in DOMAIN stack :
       LET f == stack[k]
       IN  (call = "deserialize" /\ f.input.data = "Enum") =>
             /\ f.code[1].op = "match" =>
                  \A i \in DOMAIN f.input.variants :
                    f.code[1].arms[i].value = Resolved(f.input.variants, i)
             /\ f.variant # "" =>
                  Unwrap(f.disc) =
                    Resolved(f.input.variants,
                             VariantIndex(f.input.variants, f.variant))
  /\ (Done("deserialize") /\ input = Plain /\ Len(reader.data) >= 2) =>
       LET d == WireValue(endian, SubSeq(reader.data, 1, 2))
       IN  /\ d = 0 => result = Ok(<<"A", <<>>>>)
           /\ d = 1 => result = Ok(<<"B", <<>>>>)
           /\ d = 42 => result = Ok(<<"C", <<>>>>)
           /\ d = 43 => result = Ok(<<"D", <<>>>>)

C2_Witness ==
  /\ Done("deserialize") /\ origin = "stream" /\ input = Plain
  /\ result = Ok(<<"D", <<>>>>)
  /\ WireValue(endian, SubSeq(reader.data, 1, 2)) = 43

\* the first discriminant read of the current call, and whether the call went
\* on to compare it (the post-discriminant padding is read before the match)
DiscOps == {i \in DOMAIN trace : trace[i].kind = "disc" /\ trace[i].ok}
FirstDiscOp == CHOOSE i \in DiscOps : \A j \in DiscOps : i <= j
DiscOnWire ==
  WireValue(endian, SubSeq(reader.data, trace[FirstDiscOp].from + 1, trace[FirstDiscOp].to))
DiscCompared ==
  /\ DiscOps # {}
  /\ AnnotCount(input.attrs, "post_disc_padding") > 0 =>
       /\ FirstDiscOp + 1 \in DOMAIN trace
       /\ trace[FirstDiscOp + 1].kind = "padding"
       /\ trace[FirstDiscOp + 1].ok
IsInvalidDiscriminant(r) ==
  /\ IsErr(r)
  /\ r[2][1] = "InvalidData"
  /\ r[2][2] = "invalid discriminant value for"

\* C3: a union decode that has read the discriminant (and the padding after
\* it) fails with the InvalidData error that names the type and the raw
\* value exactly when the value read is no variant's resolved discriminant;
\* for A, B, C = 42, D every value other than 0, 1, 42, 43 is rejected.
C3_InvalidDiscriminant ==
  (Done("deserialize") /\ input.data = "Enum") =>
    /\ IsInvalidDiscriminant(result) <=>
         (DiscCompared /\ DiscOnWire \notin ResolvedSet(input.variants))
    /\ IsInvalidDiscriminant(result) =>
         result = Err(<<"InvalidData", "invalid discriminant value for",
                        input.ident, DiscOnWire>>)
    /\ (IsOk(result) /\ DiscCompared) =>
         Resolved(input.variants, VariantIndex(input.variants, result[2][1]))
           = DiscOnWire
    /\ (input = Plain /\ DiscCompared /\ DiscOnWire \notin {0, 1, 42, 43}) =>
         IsInvalidDiscriminant(result)

C3_Witness ==
  /\ Done("deserialize") /\ input = Plain /\ endian = LittleEndian
  /\ reader.data = <<2, 0, 255>>
  /\ result = Err(<<"InvalidData", "invalid discriminant value for", "Plain", 2>>)

\* C4: union decode selects the first variant, in declaration order, whose
\* resolved discriminant equals the value read; a variant that resolves to
\* the value of an earlier one is never the result of a decode.
C4_FirstMatch ==
  /\ \A k \in DOMAIN stack :
       LET f == stack[k]
       IN  (call = "deserialize" /\ f.input.data = "Enum" /\ f.variant # "") =>
             LET i == VariantIndex(f.input.variants, f.variant)
             IN  /\ Resolved(f.input.variants, i) = Unwrap(f.disc)
                 /\ \A j \in 1..(i - 1) :
                      Resolved(f.input.variants, j) # Unwrap(f.disc)
  /\ (Done("deserialize") /\ input.data = "Enum" /\ IsOk(result)) =>
       LET i == VariantIndex(input.variants, result[2][1])
       IN  \A j \in 1..(i - 1) :
             Resolved(input.variants, j) # Resolved(input.variants, i)

C4_Witness ==
  /\ Done("deserialize") /\ input = Tagged
  /\ Resolved(Tagged.variants, 1) = Resolved(Tagged.variants, 4)
  /\ reader.data = <<1>>
  /\ result = Ok(<<"A", <<>>>>)

\* the arms of the match the generated fn deserialize of a declaration holds
DeserArms(decl) ==
  LET code == derive_deserialize(decl)[2]
  IN  code[CHOOSE j \in DOMAIN code : code[j].op = "match"].arms

\* C5: the discriminant a write call writes for a value is the guard of that
\* value's variant in the generated decode, and the arm decode selects for
\* it is that variant's.
C5_EncodeWritesResolvedDiscriminant ==
  \A k \in DOMAIN stack :
    LET f == stack[k]
    IN  (call = "serialize" /\ f.input.data = "Enum" /\ IsSome(f.disc)) =>
          LET i == VariantIndex(f.input.variants, f.self[1])
              arms == DeserArms(f.input)
          IN  /\ arms[i].value = Unwrap(f.disc)
              /\ first_match(arms, Unwrap(f.disc)) = Some(i)
              /\ Unwrap(f.disc) = Resolved(f.input.variants, i)

C5_Witness ==
  /\ call = "serialize" /\ pc = "running" /\ input = Plain
  /\ ser = <<"D", <<>>>>
  /\ top.disc = Some(43)
  /\ writer = WireInt(endian, 2, 43)

\* C6: a record is written as [pad(f1)] f1 ... [pad(fn)] fn [trailing_pad]
\* with the fields in declaration order: (u8, u16) and (u16, u8) put the same
\* two values in opposite orders, and a unit record writes only its trailing
\* padding.
C6_RecordLayout ==
  (Done("serialize") /\ IsOk(result) /\ input.data = "Struct") =>
    /\ writer = Flatten(Layout(input, endian, ser))
    /\ input = Pair =>
         writer = WirePrim("u8", endian, ser[2][1]) \o WirePrim("u16", endian, ser[2][2])
    /\ input = Riap =>
         writer = WirePrim("u16", endian, ser[2][1]) \o WirePrim("u8", endian, ser[2][2])
    /\ input = Empty => writer = <<>>
    /\ input = Tail2 => writer = <<0, 0>>

C6_Witness ==
  /\ Done("serialize") /\ input = RecPad
  /\ ser = <<"RecPad", <<7, TRUE>>>>
  /\ writer = <<0, 7, 0, 0, 1, 0>>

\* C7: a union is written as the discriminant (a plain integer of the
\* declared type in the active byte order), the post-discriminant padding,
\* the selected variant's fields laid out as a record, and the trailing
\* padding once.
C7_UnionLayout ==
  (Done("serialize") /\ IsOk(result) /\ input.data = "Enum") =>
    LET i == VariantIndex(input.variants, ser[1])
        ty == DiscType(input)
    IN  /\ writer = Flatten(Layout(input, endian, ser))
        /\ writer =
             WireInt(endian, size_of(ty), Resolved(input.variants, i))
               \o Zeros(AnnotCount(input.attrs, "post_disc_padding"))
               \o Flatten(FieldsLayout(input.variants[i].fields.list, ser[2], endian, 1))
               \o Zeros(AnnotCount(input.attrs, "trailing_padding"))

C7_Witness ==
  /\ Done("serialize") /\ input = DataPad /\ endian = BigEndian
  /\ ser = <<"C", <<513, TRUE>>>>
  /\ writer = <<2, 1, 0, 0, 2, 1, 0, 1, 0>>

\* C8: a union annotated with pre_disc_padding = n is accepted by both
\* derives, its generated decode reads n bytes and then the discriminant,
\* and its generated encode writes n zero bytes and then the discriminant.
C8_PreDiscPaddingHonoured ==
  (pc # "declared" /\ input.data = "Enum"
     /\ AnnotCount(input.attrs, "pre_disc_padding") > 0) =>
    LET n == AnnotCount(input.attrs, "pre_disc_padding")
        de == derive_deserialize(input)
        se == derive_serialize(input)
    IN  /\ pc # "rejected"
        /\ IsOk(de)
        /\ de[2][1] = Stmt("read_exact", n, "", <<>>)
        /\ de[2][2].op = "read_disc"
        /\ IsOk(se)
        /\ se[2][1] = Stmt("write_all", n, "", <<>>)
        /\ se[2][2].op = "write_disc"

\* the channel reads of the current call that moved the reader, as
\* (kind, length) pairs in the order they were made
Moved(o) == o.ok /\ o.to > o.from
TraceShape ==
  LET ops == SelectSeq(trace, Moved)
  IN  [i \in DOMAIN ops |-> <<ops[i].kind, ops[i].to - ops[i].from>>]
IsPrefix(s, t) == Len(s) <= Len(t) /\ SubSeq(t, 1, Len(s)) = s

\* C9: the channel reads of a decode start at the reader's position, each
\* starts where the one before ended and none moves backwards, a failed read
\* is the last one, and the reads made are, in kind, length and order, a
\* prefix of the layout of some instance of the type: the whole layout of
\* the instance returned when the decode succeeds.
C9_ReadOrdering ==
  (call = "deserialize" /\ pc \in {"running", "done"}) =>
    /\ \A i \in DOMAIN trace :
         /\ trace[i].from = (IF i = 1 THEN 0 ELSE trace[i - 1].to)
         /\ trace[i].from <= trace[i].to
         /\ trace[i].ok \/ i = Len(trace)
    /\ reader.pos = (IF trace = <<>> THEN 0 ELSE trace[Len(trace)].to)
    /\ \E w \in Instances(input) :
         IsPrefix(TraceShape, Shape(Layout(input, endian, w)))
    /\ (pc = "done" /\ IsOk(result)) =>
         /\ TraceShape = Shape(Layout(input, endian, result[2]))
         /\ reader.pos = Len(Flatten(Layout(input, endian, result[2])))

C9_Witness ==
  /\ Done("deserialize") /\ input = DataPad
  /\ result = Ok(<<"C", <<513, FALSE>>>>)
  /\ TraceShape = <<<<"disc", 2>>, <<"padding", 2>>, <<"field", 2>>,
                    <<"padding", 1>>, <<"field", 1>>, <<"padding", 1>>>>

\* C10: a stream that differs from a stream decoded to an instance only at
\* padding positions of that instance's layout (field-leading,
\* post-discriminant or trailing) decodes to the same instance, whatever the
\* bytes at those positions are.
C10_PaddingIgnored ==
  (Done("deserialize") /\ origin = "redecode") =>
    /\ IsOk(prev.result)
    /\ result = prev.result

C10_Witness ==
  /\ Done("deserialize") /\ origin = "redecode" /\ input = DataPad
  /\ prev.data = <<1, 0, 0, 0, 0, 7, 0>>
  /\ reader.data = <<1, 0, 255, 255, 255, 7, 255>>
  /\ result = Ok(<<"B", <<7>>>>)

\* C11: the bytes written for an instance that was decoded from a stream
\* are the bytes the decode consumed with 0 at every padding position,
\* whatever the stream held there: { #[padding=1] a: u32 } decoded from
\* FF 0D F0 AD BA under little-endian is 0xBAADF00D and is written as
\* 00 0D F0 AD BA.
C11_PaddingZeroFilled ==
  (Done("serialize") /\ origin = "writeback") =>
    LET P == PaddingAt(Layout(input, endian, ser), 0)
    IN  /\ Len(writer) = reader.pos
        /\ \A p \in 1..Len(writer) :
             writer[p] = (IF p \in P THEN 0 ELSE reader.data[p])
        /\ (input = Pad4 /\ endian = LittleEndian
              /\ reader.data = <<255, 13, 240, 173, 186>>) =>
             /\ ser = <<"Pad4", <<<<47789, 61453>>>>>>
             /\ writer = <<0, 13, 240, 173, 186>>

C11_Witness ==
  /\ Done("serialize") /\ origin = "writeback"
  /\ input = Pad4 /\ endian = LittleEndian
  /\ reader.data = <<255, 13, 240, 173, 186>>
  /\ writer = <<0, 13, 240, 173, 186>>

\* the position a sequence of channel operations ends at
EndOf(t) == IF t = <<>> THEN 0 ELSE t[Len(t)].to

\* C12: a declaration with padding annotations of count 0 and the same
\* declaration without them return the same result for the same call, write
\* the same bytes for the same value and consume the same bytes of the same
\* stream.
C12_ZeroCountPaddingNoOp ==
  (pc = "done" /\ origin = "twin") =>
    /\ result = prev.result
    /\ call = "serialize" => writer = prev.data
    /\ (call = "deserialize" /\ IsOk(result)) =>
         /\ reader.data = prev.data
         /\ reader.pos = EndOf(prev.trace)

C12_Witness ==
  /\ pc = "done" /\ origin = "twin" /\ call = "serialize"
  /\ input = Stripped(DataZero) /\ input # DataZero
  /\ ser = <<"B", <<7>>>>
  /\ prev.data = <<1, 7>>
  /\ writer = <<1, 7>>

UnexpectedEof == Err(<<"UnexpectedEof", "failed to fill whole buffer">>)

\* C13: a decode whose stream ends inside a padding gap (field-leading,
\* post-discriminant or trailing) returns the short-read error and no
\* instance, also when the gap is the trailing one and every field was read;
\* a decode returns an instance only from a stream that holds every byte of
\* the instance's layout, padding included.
C13_ShortPaddingFails ==
  Done("deserialize") =>
    /\ IsOk(result) =>
         Len(reader.data) >= Len(Flatten(Layout(input, endian, result[2])))
    /\ (trace # <<>> /\ trace[Len(trace)].kind = "padding"
          /\ ~trace[Len(trace)].ok) =>
         result = UnexpectedEof
    /\ (origin = "truncated"
          /\ Len(reader.data) + 1 \in PaddingAt(Layout(input, endian, ser), 0)) =>
         /\ result = UnexpectedEof
         /\ trace[Len(trace)].kind = "padding"
         /\ ~trace[Len(trace)].ok

C13_Witness ==
  /\ Done("deserialize") /\ origin = "truncated" /\ input = RecPad
  /\ reader.data = <<0, 7, 0, 0, 1>>
  /\ SelectSeq(trace, Moved) =
       <<Op("padding", 0, 1, TRUE), Op("field", 1, 2, TRUE),
         Op("padding", 2, 4, TRUE), Op("field", 4, 5, TRUE)>>
  /\ result = UnexpectedEof

InvalidBool == Err(<<"InvalidData", "bool had value other than 0 or 1">>)

\* C14: the bool decode maps the byte 0 to false, 1 to true and every other
\* byte (0x2A among them) to the InvalidData error, the same under both byte
\* orders; a bool field is read as exactly one byte of the stream and is
\* written as the single byte 0 or 1.
C14_Bool ==
  /\ pc = "declared" =>
       \A b \in Byte : \A E \in Endianness :
         deserialize_prim("bool", E, <<b>>) =
           (IF b = 0 THEN Ok(FALSE) ELSE IF b = 1 THEN Ok(TRUE) ELSE InvalidBool)
  /\ (Done("deserialize") /\ input = Flag /\ reader.data # <<>>) =>
       /\ reader.pos = 1
       /\ trace = <<Op("field", 0, 1, TRUE)>>
       /\ result = (IF reader.data[1] = 0 THEN Ok(<<"Flag", <<FALSE>>>>)
                    ELSE IF reader.data[1] = 1 THEN Ok(<<"Flag", <<TRUE>>>>)
                    ELSE InvalidBool)
  /\ (Done("serialize") /\ IsOk(result) /\ input = Flag) =>
       writer = (IF ser[2][1] THEN <<1>> ELSE <<0>>)

C14_Witness ==
  /\ Done("deserialize") /\ input = Flag
  /\ reader.data = <<42>>
  /\ reader.pos = 1
  /\ result = InvalidBool

\* the order the entry point in use is documented to give
AmbientOrder ==
  CASE entry.trait = "BE" -> BigEndian
    [] entry.trait = "LE" -> LittleEndian
    [] OTHER -> entry.E
ExpectedOrder ==
  IF entry.method = "be" THEN BigEndian
  ELSE IF entry.method = "le" THEN LittleEndian
  ELSE AmbientOrder

\* C15: read / write use the ambient order of the trait in use, read_be /
\* write_be big endian and read_le / write_le little endian whatever the
\* ambient order is, and that order is the order of every field and
\* discriminant written or read by the call, nested ones included.
C15_ByteOrderSelection ==
  /\ endian = ExpectedOrder
  /\ (Done("serialize") /\ IsOk(result)) =>
       writer = Flatten(Layout(input, ExpectedOrder, ser))
  /\ (Done("deserialize") /\ IsOk(result)) =>
       LET segs == Layout(input, ExpectedOrder, result[2])
       IN  \A p \in 1..Len(Flatten(segs)) :
             p \notin PaddingAt(segs, 0) => reader.data[p] = Flatten(segs)[p]

C15_Witness ==
  /\ Done("deserialize") /\ input = Outer
  /\ entry = Entry("LE", LittleEndian, "be")
  /\ reader.data = <<0, 43, 0, 7, 2, 1, 0>>
  /\ result = Ok(<<"Outer", <<<<"D", <<>>>>, <<"Pair", <<7, 513>>>>>>>>)

\* the bytes of a sequence in the opposite order
Reverse(b) == [i \in DOMAIN b |-> b[Len(b) + 1 - i]]

\* a declaration that contains a primitive of more than one byte: as the
\* discriminant type, as a field type, or in the type of a field
RECURSIVE ContainsMultiByte(_)
FieldsMultiByte(fields) ==
  \E i \in DOMAIN fields.list :
    IF fields.list[i].ty \in Primitives THEN size_of(fields.list[i].ty) > 1
    ELSE IF fields.list[i].ty \in SeqTypes THEN size_of(Elem(fields.list[i].ty)) > 1
    ELSE ContainsMultiByte(TypeDecl(fields.list[i].ty))
ContainsMultiByte(decl) ==
  IF decl.data = "Struct" THEN FieldsMultiByte(decl.fields)
  ELSE \/ size_of(DiscType(decl)) > 1
       \/ \E i \in DOMAIN decl.variants : FieldsMultiByte(decl.variants[i].fields)

\* the discriminant and primitive fields of a layout
Scalars(segs) == SelectSeq(segs, LAMBDA g : g.kind # "padding")

WriteZero == Err(<<"WriteZero", "failed to write whole buffer">>)

\* C17: a failed channel operation is the last operation of the call, and
\* the call has then returned, from all its frames, the error of that
\* operation: UnexpectedEof of the read, WriteZero of the write.  A decode
\* that ends with an error after successful reads returns the error of the
\* value just read (an invalid bool or discriminant).  A decode of a proper
\* prefix of a written stream, and a write into a slice shorter than the
\* layout, return an error and never an instance or Ok.
C17_ErrorPropagation ==
  (pc \in {"running", "done"}) =>
    /\ \A i \in DOMAIN trace :
         ~trace[i].ok =>
           /\ i = Len(trace)
           /\ pc = "done" /\ stack = <<>>
           /\ result = (IF call = "deserialize" THEN UnexpectedEof ELSE WriteZero)
    /\ (pc = "done" /\ IsErr(result)) =>
         /\ stack = <<>>
         /\ trace # <<>>
         /\ trace[Len(trace)].ok =>
              /\ call = "deserialize"
              /\ result = InvalidBool \/ IsInvalidDiscriminant(result)
              /\ reader.pos = trace[Len(trace)].to
    /\ (Done("deserialize") /\ origin = "truncated") => result = UnexpectedEof
    /\ (Done("serialize") /\ IsSome(cap)
          /\ Unwrap(cap) < Len(Flatten(Layout(input, endian, ser)))) =>
         /\ result = WriteZero
         /\ writer = SubSeq(Flatten(Layout(input, endian, ser)), 1, Unwrap(cap))

C17_Witness ==
  /\ Done("deserialize") /\ origin = "truncated" /\ input = Outer
  /\ reader.data = <<0, 43, 0, 7>>
  /\ ~trace[Len(trace)].ok
  /\ result = UnexpectedEof

\* the arguments of the repr attributes of a declaration, in order, and the
\* first of them that is neither C nor transparent
RECURSIVE ReprArgs(_)
ReprArgs(attrs) ==
  IF attrs = <<>> THEN <<>>
  ELSE (IF attrs[1].path = "repr" THEN attrs[1].nested ELSE <<>>)
         \o ReprArgs(Tail(attrs))
DeclaredTypes(attrs) ==
  SelectSeq(ReprArgs(attrs), LAMBDA a : a \notin {"C", "transparent"})
MissingDiscriminantType ==
  Err("You need to add a repr attribute to specify the discriminant type, e.g. #[repr(u16)]")

\* C18: for a union whose repr attributes name no type other than C and
\* transparent (or that has no repr), both derives fail with the missing
\* repr panic, and no decode or encode of the type is ever run; a union
\* whose repr names an integer type, alone or after C, is expanded with the
\* first such type as the type of the discriminant read and written.
C18_MissingDiscriminantType ==
  (pc # "declared" /\ input.data = "Enum") =>
    IF DeclaredTypes(input.attrs) = <<>>
    THEN /\ derive_deserialize(input) = MissingDiscriminantType
         /\ derive_serialize(input) = MissingDiscriminantType
         /\ pc = "rejected" /\ result = MissingDiscriminantType
         /\ call = "" /\ stack = <<>> /\ trace = <<>>
    ELSE /\ get_enum_type(input) = Ok(DeclaredTypes(input.attrs)[1])
         /\ pc # "rejected" =>
              /\ \E j \in DOMAIN derive_deserialize(input)[2] :
                   /\ derive_deserialize(input)[2][j].op = "read_disc"
                   /\ derive_deserialize(input)[2][j].ty = DeclaredTypes(input.attrs)[1]
              /\ \E j \in DOMAIN derive_serialize(input)[2] :
                   /\ derive_serialize(input)[2][j].op = "write_disc"
                   /\ derive_serialize(input)[2][j].ty = DeclaredTypes(input.attrs)[1]
         /\ (input = Tagged /\ Done("deserialize") /\ reader.data # <<>>) =>
              trace[1] = Op("disc", 0, 1, TRUE)

C18_Witness ==
  /\ input = ReprC /\ pc = "rejected"
  /\ DeclaredTypes(input.attrs) = <<>>
  /\ result = MissingDiscriminantType

\* what the decode of an Option<T> field at the start of the stream d must
\* return under byte order E, n being the size of T: <<result, bytes read>>,
\* result being None for a failure that says which
OptionExpected(d, E, n) ==
  IF d = <<>> THEN <<"eof", 0>>
  ELSE IF d[1] = 0 THEN <<Ok(None), 1>>
  ELSE IF d[1] # 1 THEN <<"invalid", 1>>
  ELSE IF Len(d) < 1 + n THEN <<"eof", 1>>
  ELSE <<Ok(Some(WireValue(E, SubSeq(d, 2, 1 + n)))), 1 + n>>

\* C20: the decode of an Option<T> reads one byte as a bool; on true it
\* reads T next and yields Some of it, on false it yields None and the read
\* after it starts at the byte that follows the flag; a flag byte other
\* than 0 and 1 fails the decode with the bool's InvalidData error after
\* that one byte.
C20_OptionDecode ==
  (Done("deserialize") /\ input \in {Opt, OptTail}) =>
    LET d == reader.data
        n == size_of(Payload(input.fields.list[1].ty))
        a == OptionExpected(d, endian, n)
    IN  CASE a[1] = "invalid" ->
               /\ result = InvalidBool
               /\ trace = <<Op("field", 0, 1, TRUE)>> /\ reader.pos = 1
          [] a[1] = "eof" ->
               /\ result = UnexpectedEof
               /\ Len(SelectSeq(trace, Moved)) = a[2]
          [] OTHER ->
               /\ trace[1] = Op("field", 0, 1, TRUE)
               /\ IsSome(a[1][2]) => trace[2] = Op("field", 1, 1 + n, TRUE)
               /\ IF input = Opt
                  THEN result = Ok(<<"Opt", <<a[1][2]>>>>) /\ reader.pos = a[2]
                  ELSE IF Len(d) > a[2]
                  THEN /\ result = Ok(<<"OptTail", <<a[1][2], d[a[2] + 1]>>>>)
                       /\ trace[Len(trace)] = Op("field", a[2], a[2] + 1, TRUE)
                  ELSE result = UnexpectedEof

C20_Witness ==
  /\ Done("deserialize") /\ input = Opt /\ endian = LittleEndian
  /\ reader.data = <<1, 42, 0>>
  /\ result = Ok(<<"Opt", <<Some(42)>>>>)

\* the channel operations of a call that succeeded
Succeeded(t) == SelectSeq(t, LAMBDA o : o.ok)

\* the calls of the two threads
Threads == {Current} \cup (IF IsSome(parked) THEN {Unwrap(parked)} ELSE {})

\* C19: a call made while another thread makes a call on a channel of its
\* own does, under every interleaving of the two calls' steps, what it did
\* when it ran alone: at every moment its successful channel operations are
\* the first of those of the run alone, and when it has returned its result
\* is the same and the bytes read from its reader or written to its writer
\* are the same (where a failed read_exact leaves the reader is not fixed
\* by std and is not compared).
C19_ConcurrentCallsIndependent ==
  \A c \in Threads :
    c.origin = "concurrent" =>
      /\ IsPrefix(Succeeded(c.trace), Succeeded(prev.trace))
      /\ c.pc = "done" =>
           /\ c.result = prev.result
           /\ Succeeded(c.trace) = Succeeded(prev.trace)
           /\ IF c.call = "deserialize"
              THEN c.reader.data = prev.data
              ELSE c.writer = prev.data

C19_Witness ==
  /\ origin = "concurrent" /\ Done("deserialize") /\ input = Outer
  /\ IsOk(result) /\ result = prev.result
  /\ IsSome(parked)
  /\ Unwrap(parked).pc = "running" /\ Unwrap(parked).call = "serialize"
  /\ Unwrap(parked).trace # <<>>

\* C21: an optional value that a decode returned can be encoded: the
\* library has a Serialize impl for Option<T>, so the generated encode of a
\* type with an optional field applies to the instance just decoded and the
\* instance can be written back.
C21_OptionEncodeProvided ==
  (Done("deserialize") /\ IsOk(result) /\ input \in {Opt, OptTail}) =>
    /\ \A ty \in OptionTypes : ImplementsSerialize(ty)
    /\ where_clause_serialize(input)

\* the encodings of the elements of a sequence, one after another
RECURSIVE Concat(_, _, _)
Concat(S, E, elems) ==
  IF elems = <<>> THEN <<>>
  ELSE WireInt(E, size_of(S), elems[1]) \o Concat(S, E, Tail(elems))

\* C22: the encode of a Vec makes one write per element, in index order,
\* each of the element's encoding in the active byte order, and no other
\* write: what it adds to the output is the concatenation of the element
\* encodings, with no length before and no terminator after them, nothing
\* for an empty Vec, and the Vec is written as the slice of its elements
\* (the elements the slice loop has left are always the last ones of the Vec).
C22_SequenceEncode ==
  /\ (Running("serialize") /\ top.input.data = "slice") =>
       IsPrefix(Reverse(top.self),
                Reverse(stack[2].self[2][stack[2].code[1].n]))
  /\ (Done("serialize") /\ IsOk(result) /\ input \in {Batch, BatchTail}) =>
       LET items == ser[2][1]
           S == Elem(input.fields.list[1].ty)
           first == IF input = Batch THEN 0 ELSE 1
           ops == SubSeq(trace, first + 1, first + Len(items))
       IN  /\ writer = (IF input = Batch THEN <<>> ELSE <<0>>)
                         \o Concat(S, endian, items)
                         \o (IF input = Batch THEN <<>> ELSE <<ser[2][2]>>)
           /\ Len(trace) = Len(items) + 2 * first
           /\ \A i \in DOMAIN ops :
                /\ ops[i].kind = "field"
                /\ ops[i].to - ops[i].from = size_of(S)
                /\ SubSeq(writer, ops[i].from + 1, ops[i].to)
                     = WireInt(endian, size_of(S), items[i])
           /\ items = <<>> => Len(writer) = 2 * first

C22_Witness ==
  /\ Done("serialize") /\ IsOk(result) /\ input = Batch
  /\ endian = LittleEndian
  /\ ser = <<"Batch", <<<<44474, 513>>>>>>
  /\ writer = <<186, 173, 1, 2>>

\* the width in bits of each integer type
Width(ty) == CASE ty \in {"u8", "i8"} -> 8
               [] ty \in {"u16", "i16"} -> 16
               [] ty \in {"u32", "i32"} -> 32
               [] ty \in {"u64", "i64"} -> 64
               [] ty \in {"u128", "i128"} -> 128

\* the 16-bit parts of a value of n >= 2 bytes, most significant first
RECURSIVE Limbs(_, _)
Limbs(v, n) == IF n = 2 THEN <<v>> ELSE Limbs(v[1], n - 2) \o <<v[2]>>

\* byte k of a value of n bytes, byte 0 being the least significant; a
\* negative number stands for its two's complement
ByteOf(v, n, k) ==
  IF n = 1 THEN v % 256
  ELSE LET limb == Limbs(v, n)[(n \div 2) - (k \div 2)] % 65536
       IN  IF k % 2 = 0 THEN limb % 256 ELSE limb \div 256

\* every value of a type of 8 or 16 bits
SmallValues(ty) ==
  CASE ty = "u8" -> 0..255
    [] ty = "i8" -> -128..127
    [] ty = "u16" -> 0..65535
    [] ty = "i16" -> -32768..32767

\* C23: for every integer type, signed or unsigned, of 8 to 128 bits: an
\* encode writes width/8 bytes, byte i of them being the value's byte
\* width/8 - i (counted from the least significant, two's complement for a
\* negative value) in big endian and its byte i - 1 in little endian, so
\* that each encoding is the other reversed; the decode of the bytes
\* written, in the byte order they were written in, returns the value.  For
\* the types of 8 and 16 bits this holds for every value of the type.
C23_IntegerCodec ==
  /\ (pc = "declared" /\ input = IntDecl("u8") /\ endian = BigEndian) =>
       \A ty \in {"u8", "i8", "u16", "i16"} : \A v \in SmallValues(ty) :
         LET n == size_of(ty)
             be == serialize_int(ty, BigEndian, v)
             le == serialize_int(ty, LittleEndian, v)
         IN  /\ Len(be) = Width(ty) \div 8 /\ Len(le) = Width(ty) \div 8
             /\ \A i \in 1..n : be[i] = ByteOf(v, n, n - i) /\ le[i] = ByteOf(v, n, i - 1)
             /\ deserialize_int(ty, BigEndian, be) = Ok(v)
             /\ deserialize_int(ty, LittleEndian, le) = Ok(v)
  /\ (input.ident = "Int" /\ Done("serialize") /\ IsOk(result)) =>
       LET ty == input.fields.list[1].ty
           n == Width(ty) \div 8
           v == ser[2][1]
       IN  /\ Len(writer) = n
           /\ trace = <<Op("field", 0, n, TRUE)>>
           /\ \A i \in 1..n :
                writer[i] = ByteOf(v, n, IF endian = BigEndian THEN n - i ELSE i - 1)
           /\ origin = "flipped" => writer = Reverse(prev.data)
  /\ (input.ident = "Int" /\ Done("deserialize") /\ origin = "readback") =>
       /\ result = Ok(ser)
       /\ reader.pos = Width(input.fields.list[1].ty) \div 8

C23_Witness ==
  /\ Done("deserialize") /\ origin = "readback"
  /\ input = IntDecl("i64") /\ endian = LittleEndian
  /\ ser = <<"Int", <<Wide(<<-17747, 61453, 47789, 61453>>)>>>>
  /\ reader.data = <<13, 240, 173, 186, 13, 240, 173, 186>>
  /\ result = Ok(ser)

\* where the current call on the reader started
CallStart ==
  IF earlier.decoded = <<>> THEN 0
  ELSE earlier.decoded[Len(earlier.decoded)][2]

\* C24: a decode that returns an instance has read the bytes from where it
\* started to where it leaves the reader and no byte after them, and their
\* number is the number of bytes the encode of that instance writes; so
\* when several instances were written one after another to one writer,
\* the k-th decode call on a reader over the bytes written returns the k-th
\* instance written, and the last of them leaves the reader at the end.
C24_DecodeConsumesOneEncoding ==
  /\ (Done("deserialize") /\ IsOk(result)) =>
       /\ trace # <<>> => trace[1].from = CallStart
       /\ \A i \in DOMAIN trace : trace[i].ok /\ trace[i].to <= reader.pos
       /\ reader.pos = CallStart + Len(Flatten(Layout(input, endian, result[2])))
  /\ (Done("serialize") /\ IsOk(result) /\ origin = "writeback") =>
       Len(writer) = reader.pos - CallStart
  /\ (Done("deserialize") /\ origin = "readback") =>
       LET written == Append(earlier.written, ser)
           k == Len(earlier.decoded) + 1
       IN  k <= Len(written) =>
             /\ result = Ok(written[k])
             /\ \A j \in DOMAIN earlier.decoded : earlier.decoded[j][1] = written[j]
             /\ k = Len(written) => reader.pos = Len(reader.data)
             /\ k < Len(written) => reader.pos < Len(reader.data)

C24_Witness ==
  /\ Done("deserialize") /\ origin = "readback" /\ input = Data
  /\ endian = BigEndian
  /\ earlier.written = <<<<"C", <<513, TRUE>>>>, <<"A", <<>>>>>>
  /\ ser = <<"B", <<7>>>>
  /\ Len(earlier.decoded) = 2
  /\ result = Ok(ser)
  /\ reader.data = <<2, 2, 1, 1, 0, 1, 7>>
  /\ reader.pos = 7

\* the bytes a union decode has taken when it compares the discriminant: the
\* padding before the discriminant, the discriminant, the padding after it
PostDiscEnd(decl) ==
  AnnotCount(decl.attrs, "pre_disc_padding") + size_of(DiscType(decl))
    + AnnotCount(decl.attrs, "post_disc_padding")
PostDiscShape(decl) ==
  <<<<"disc", size_of(DiscType(decl))>>>>
    \o (IF AnnotCount(decl.attrs, "post_disc_padding") > 0
        THEN <<<<"padding", AnnotCount(decl.attrs, "post_disc_padding")>>>>
        ELSE <<>>)

\* C25: a union decode that fails with the invalid-discriminant error has
\* read the discriminant and then the padding after it and nothing else: the
\* reader stands right after that padding, no field and no trailing padding
\* byte was read; a stream that holds the discriminant but not all of the
\* padding after it gives the short-read error whatever the discriminant is.
C25_InvalidDiscriminantAdvance ==
  /\ (Done("deserialize") /\ input.data = "Enum" /\ IsInvalidDiscriminant(result)) =>
       /\ reader.pos = trace[1].from + PostDiscEnd(input)
       /\ \A i \in DOMAIN trace : trace[i].ok /\ trace[i].kind # "field"
       /\ TraceShape = PostDiscShape(input)
       /\ Len(reader.data) >= trace[1].from + PostDiscEnd(input)
  /\ (Done("deserialize") /\ input.data = "Enum" /\ DiscOps # {}
        /\ Len(reader.data) < trace[1].from + PostDiscEnd(input)) =>
       /\ result = UnexpectedEof
       /\ trace[Len(trace)].kind = "padding" /\ ~trace[Len(trace)].ok
  /\ (Done("deserialize") /\ input = Outer /\ IsInvalidDiscriminant(result)) =>
       /\ result[2][3] = "Plain"
       /\ reader.pos = trace[1].from + PostDiscEnd(Plain)
       /\ TraceShape = PostDiscShape(Plain)

C25_Witness ==
  /\ Done("deserialize") /\ origin = "stream" /\ input = Post
  /\ reader.data = <<2, 255, 1>>
  /\ result = Err(<<"InvalidData", "invalid discriminant value for", "Post", 2>>)
  /\ reader.pos = 2
  /\ trace = <<Op("disc", 0, 1, TRUE), Op("padding", 1, 2, TRUE)>>

\* C26: an encode that fails has not undone what it wrote: the sink holds a
\* proper prefix of the full encoding of the instance, and in it every byte
\* of the steps that succeeded before the failing one (padding, discriminant,
\* earlier fields), each at the place the step wrote it.
C26_EncodeNotAtomic ==
  (Done("serialize") /\ IsErr(result)) =>
    LET full == Flatten(Layout(input, endian, ser))
    IN  /\ result = WriteZero
        /\ IsSome(cap)
        /\ IsPrefix(writer, full)
        /\ Len(writer) < Len(full)
        /\ Len(writer) = Unwrap(cap)
        /\ \A i \in DOMAIN trace :
             trace[i].ok =>
               /\ trace[i].to <= Len(writer)
               /\ SubSeq(writer, trace[i].from + 1, trace[i].to)
                    = SubSeq(full, trace[i].from + 1, trace[i].to)
        /\ trace[Len(trace)].from <= Len(writer)

C26_Witness ==
  /\ Done("serialize") /\ input = Post /\ ser = <<"B", <<7>>>>
  /\ cap = Some(3)
  /\ result = WriteZero
  /\ trace = <<Op("disc", 0, 1, TRUE), Op("padding", 1, 2, TRUE),
               Op("field", 2, 3, TRUE), Op("padding", 3, 3, FALSE)>>
  /\ writer = <<1, 0, 7>>

====
